---- MODULE Spec2Model ----
(***************************************************************************)
(* Rage-O-Meter: the cooldown-gated alert dispatcher of main.py's fast     *)
(* loop and the per-subject emotion smoother of vision.py.                 *)
(*                                                                         *)
(* Time is counted in whole seconds.  time.time() is taken to be           *)
(* non-decreasing from one loop iteration to the next.                     *)
(***************************************************************************)
EXTENDS Integers, Sequences, FiniteSets

VARIABLES
    \* ---- main.py: module globals and the locals of one fast-loop iteration
    current_time,           \* main_app: current_time of the latest iteration
    player_1_last_roast,
    player_2_last_roast,
    hardware_last_roast,
    p1_emo_copy,            \* snapshot of player_1_emotion read under data_lock
    p2_emo_copy,            \* snapshot of player_2_emotion read under data_lock
    is_shaking,             \* check_for_shake(gyro) of this iteration
    is_yelling,             \* mic.check_for_yell() of this iteration
    fired,                  \* the alerts spoken in the latest iteration
    \* ---- history of the alerts the dispatcher has emitted
    lastAlert,              \* kind -> loop time of its latest alert, 0 if none yet
    streak,                 \* kind -> alerts of the kind fired while its trigger has held on
                            \* every read since the first of them, counted up to 2; 0 once
                            \* a read finds the trigger off
    \* ---- vision.py: the module-level _emotion_smoother
    left_history,
    right_history,
    left_current,
    right_current,
    \* ---- vision.py: one call of analyze_face_emotion
    deepface_result,        \* what DeepFace.analyze gave for the face: <<>> if it raised,
                            \* else <<[emotion |-> scores, dominant_emotion |-> label]>>
    baseline,               \* the baseline argument: <<>> for None, else <<mean>>
    face_emotion,           \* the label returned, "pending" before the call
    \* ---- vision.py: BaselineCalibrator (_baseline_calibrator)
    calibration_samples,    \* sequence of [left |-> scores, right |-> scores],
                            \* each <<>> for None, else <<vector>>
    calibrated,
    left_baseline,          \* <<>> for None, else <<mean>>
    right_baseline,
    api_return,             \* the last call made on the calibrator and its value
    fresh_samples,          \* history: samples added since the last reset
    resets,                 \* history: number of resets so far
    \* ---- vision.py: analyze_player_emotions
    calls,                  \* history: number of calls made so far
    faces,                  \* what detect_faces gave in the last call: a sequence
                            \* of [x |-> position, result |-> DeepFace's result]
    returned_emotions,      \* the dictionary the last call returned
    classified_with,        \* history: per slot, how the last call classified it:
                            \* "none", "absolute" (baseline None) or "delta"
    observed,               \* history: the raw label pairs given to update, in order
    \* ---- main.py: the two threads and what they share
    main_pc,                \* where main_app is
    worker_pc,              \* where analysis_worker is
    data_lock,              \* "free", or the thread that holds it
    app_running,
    latest_frame,           \* 0 for None, 1 for a frame (in SpecFrames: its array)
    player_1_emotion,
    player_2_emotion,
    player_1_box,           \* <<>> for None, else <<x>> of the region
    player_2_box,
    frame_to_analyze,       \* analysis_worker: 0 for None, 1 for a copy of the frame
                            \* (in SpecFrames: its array)
    results,                \* analysis_worker: what the latest DeepFace.analyze gave
    p1_box_copy,            \* main_app: snapshot of player_1_box
    p2_box_copy,
    camera,                 \* main_app: "off", "ready", or "failed" to initialise
    late_analyses,          \* history: analyses started after app_running was cleared
    late_publishes,         \* history: publishes begun after app_running was cleared
    cycle,                  \* history: what the worker did since it last read
                            \* latest_frame, the read included
    \* ---- hardware.py: module globals and the two threads that use them
    gyro,                   \* what setup_gyro returned: "unset", "serial" or "None"
    serial_running,         \* _serial_running
    shake_detected,         \* _shake_detected
    serial_lock,            \* _serial_lock: "free", "reader" or "checker"
    line,                   \* _serial_reader_thread: the line it read last
    reader_pc,              \* where _serial_reader_thread is
    checker_pc,             \* where the caller of check_for_shake is
    lines_read,             \* history: SHAKE lines readline has returned
    shakes_received,        \* history: SHAKE lines the reader has recorded
    true_returns,           \* history: True returns of check_for_shake
    since_true,             \* history: SHAKEs recorded since the last True return
    since_test,             \* history: SHAKEs recorded since the flag was last tested
    last_return,            \* history: the latest read: its value, and since_true and
                            \* since_test as its test found them
    \* ---- audio.py: Speaker.speak as called by the fast loop
    fast_loop,              \* "running", or left by an exception
    audio_failure,          \* what went wrong in the latest speak call
    spoken,                 \* how the latest speak call of an iteration ended
    \* ---- main.py: the frames as arrays
    arrays,                 \* the arrays made so far: [image, overlay] each
    frame_bgr,              \* main_app: the array of the captured frame, 0 before
    shots,                  \* history: captures made so far
    stored_image,           \* history: <<content>> of frame_bgr when it was stored
    analysed_image,         \* history: <<content>> of latest_frame when the worker took it
    seen,                   \* history: <<content>> DeepFace.analyze last read
    \* ---- the microphone's yell flag
    yell_detected,          \* set by a yell, reset by check_for_yell
    yells_heard,            \* history: yells heard so far
    yells_since_read,       \* history: yells heard since check_for_yell last read
    last_yell               \* history: the latest check_for_yell: its value, and
                            \* yells_since_read as it found it

dispatchVars == <<current_time, player_1_last_roast, player_2_last_roast,
                  hardware_last_roast, p1_emo_copy, p2_emo_copy, is_shaking,
                  is_yelling, fired, lastAlert, streak>>

smootherVars == <<left_history, right_history, left_current, right_current>>

classifyVars == <<deepface_result, baseline, face_emotion>>

calibratorVars == <<calibration_samples, calibrated, left_baseline, right_baseline,
                    api_return, fresh_samples, resets>>

pipelineVars == <<calls, faces, returned_emotions, classified_with>>

threadVars == <<main_pc, worker_pc, data_lock, app_running, latest_frame,
                player_1_emotion, player_2_emotion, player_1_box, player_2_box,
                frame_to_analyze, results, p1_box_copy, p2_box_copy, camera,
                late_analyses, late_publishes, cycle>>

shakeVars == <<gyro, serial_running, shake_detected, serial_lock, line, reader_pc,
               checker_pc, lines_read, shakes_received, true_returns, since_true,
               since_test, last_return>>

audioVars == <<fast_loop, audio_failure, spoken>>

frameVars == <<arrays, frame_bgr, shots, stored_image, analysed_image, seen>>

micVars == <<yell_detected, yells_heard, yells_since_read, last_yell>>

concurrencyVars == <<threadVars, shakeVars, audioVars, frameVars, micVars>>

vars == <<dispatchVars, smootherVars, classifyVars, calibratorVars, pipelineVars,
          observed, concurrencyVars>>

(***************************************************************************)
(* Bounds of the model.                                                    *)
(***************************************************************************)
\* The dispatch loop is followed up to this loop time.
MaxTime == 26

\* The longest time, in seconds, between two consecutive loop iterations.
MaxStep == 3

\* The SHAKE lines the serial reader is followed through.
MaxShakes == 3

\* The fast loop with a failing speaker is followed up to this loop time.
MaxAudioTime == 22

\* The yells the microphone hears in a run.
MaxYells == 1

\* The fast loop reading its signals is followed up to this loop time.
MaxSignalTime == 23

\* The captures the frame arrays are followed through.
MaxShots == 3

\* The arrays, captured or copied, that are made in all.
MaxArrays == 7

(***************************************************************************)
(* main.py: settings and initial values.                                   *)
(***************************************************************************)
ROAST_COOLDOWN == 10

\* time.time() is the epoch clock: far more than one cooldown past 0.0.
StartTime == ROAST_COOLDOWN + 1

Kinds == {"hardware", "left", "right"}

\* The labels a snapshot of player_N_emotion is drawn from.
SnapshotLabels == {"angry", "unknown"}

(***************************************************************************)
(* main_app, step 6: the roasting logic.                                   *)
(***************************************************************************)
\* As HardwareCond, were the cooldown compared with >= .
HardwareCondAtCooldown(shake, yell, now, hw_last) ==
    (shake \/ yell) /\ (now - hw_last >= ROAST_COOLDOWN)

HardwareCond(shake, yell, now, hw_last) ==
    (shake \/ yell) /\ (now - hw_last > ROAST_COOLDOWN)

\* As Player1Cond, were the cooldown test left out.
Player1CondNoCooldown(p1_emo, now, p1_last) ==
    p1_emo = "angry"

Player1Cond(p1_emo, now, p1_last) ==
    p1_emo = "angry" /\ (now - p1_last > ROAST_COOLDOWN)

Player2Cond(p2_emo, now, p2_last) ==
    p2_emo = "angry" /\ (now - p2_last > ROAST_COOLDOWN)

\* As Branches, were the chain three separate if statements.
BranchesIndependentIfs(shake, yell, p1_emo, p2_emo, now, p1_last, p2_last, hw_last) ==
    (IF HardwareCond(shake, yell, now, hw_last) THEN {"hardware"} ELSE {})
    \cup (IF Player1Cond(p1_emo, now, p1_last) THEN {"left"} ELSE {})
    \cup (IF Player2Cond(p2_emo, now, p2_last) THEN {"right"} ELSE {})

\* As Branches, were the players tested before the hardware signals.
BranchesPlayersFirst(shake, yell, p1_emo, p2_emo, now, p1_last, p2_last, hw_last) ==
    IF Player1Cond(p1_emo, now, p1_last) THEN {"left"}
    ELSE IF Player2Cond(p2_emo, now, p2_last) THEN {"right"}
    ELSE IF HardwareCond(shake, yell, now, hw_last) THEN {"hardware"}
    ELSE {}

\* The if / elif / elif chain: the set of branches whose body runs.
Branches(shake, yell, p1_emo, p2_emo, now, p1_last, p2_last, hw_last) ==
    IF HardwareCond(shake, yell, now, hw_last) THEN {"hardware"}
    ELSE IF Player1Cond(p1_emo, now, p1_last) THEN {"left"}
    ELSE IF Player2Cond(p2_emo, now, p2_last) THEN {"right"}
    ELSE {}

\* As Player1Stamp, were the hardware branch to leave the player timestamps alone.
Player1StampOwnOnly(taken, now, p1_last) ==
    IF "left" \in taken THEN now ELSE p1_last

\* As Player2Stamp, were every alert to reset it.
Player2StampAnyAlert(taken, now, p2_last) ==
    IF taken # {} THEN now ELSE p2_last

\* As HardwareStamp, were the player branches to leave hardware_last_roast alone.
HardwareStampOwnOnly(taken, now, hw_last) ==
    IF "hardware" \in taken THEN now ELSE hw_last

\* As HardwareStamp, were the right player's branch to leave
\* hardware_last_roast alone.
HardwareStampNotByRight(taken, now, hw_last) ==
    IF "hardware" \in taken \/ "left" \in taken THEN now ELSE hw_last

\* The assignments of the three branch bodies, per timestamp.
Player1Stamp(taken, now, p1_last) ==
    IF "hardware" \in taken \/ "left" \in taken THEN now ELSE p1_last

Player2Stamp(taken, now, p2_last) ==
    IF "hardware" \in taken \/ "right" \in taken THEN now ELSE p2_last

HardwareStamp(taken, now, hw_last) ==
    IF taken # {} THEN now ELSE hw_last

\* Whether the trigger of a kind holds in an iteration with these inputs.
Trigger(kind, shake, yell, p1_emo, p2_emo) ==
    CASE kind = "hardware" -> shake \/ yell
      [] kind = "left"     -> p1_emo = "angry"
      [] kind = "right"    -> p2_emo = "angry"

\* One iteration of the while True loop, dt seconds after the previous one.
Iterate(dt, shake, yell, p1_emo, p2_emo) ==
    LET now   == current_time + dt
        taken == Branches(shake, yell, p1_emo, p2_emo, now,
                          player_1_last_roast, player_2_last_roast,
                          hardware_last_roast)
    IN  /\ now <= MaxTime
        /\ current_time' = now
        /\ p1_emo_copy' = p1_emo
        /\ p2_emo_copy' = p2_emo
        /\ is_shaking' = shake
        /\ is_yelling' = yell
        /\ fired' = taken
        /\ player_1_last_roast' = Player1Stamp(taken, now, player_1_last_roast)
        /\ player_2_last_roast' = Player2Stamp(taken, now, player_2_last_roast)
        /\ hardware_last_roast' = HardwareStamp(taken, now, hardware_last_roast)
        /\ lastAlert' = [k \in Kinds |-> IF k \in taken THEN now ELSE lastAlert[k]]
        /\ streak' = [k \in Kinds |->
                        IF ~Trigger(k, shake, yell, p1_emo, p2_emo) THEN 0
                        ELSE IF k \in taken THEN (IF streak[k] = 0 THEN 1 ELSE 2)
                        ELSE streak[k]]

FastLoop ==
    /\ \E dt \in 0..MaxStep, shake \in BOOLEAN, yell \in BOOLEAN,
          p1_emo \in SnapshotLabels, p2_emo \in SnapshotLabels :
           Iterate(dt, shake, yell, p1_emo, p2_emo)
    /\ UNCHANGED <<smootherVars, classifyVars, calibratorVars, pipelineVars,
                   observed, concurrencyVars>>

(***************************************************************************)
(* vision.py: EmotionSmoother, as the module-level instance                *)
(* _emotion_smoother = EmotionSmoother(window_size=7,                      *)
(*                                     confidence_threshold=4).            *)
(***************************************************************************)
window_size == 7

confidence_threshold == 4

\* The raw labels of one analysed frame, <<left_emotion, right_emotion>>.
\* smooth_emotion reads only the history and the stable label it is handed,
\* so the pairs give each subject three labels without giving the two
\* subjects the same sequence; "unknown" is the right label of a frame with
\* a single face.
FramePairs ==
    { <<"angry", "neutral">>, <<"neutral", "unknown">>, <<"happy", "angry">>,
      <<"angry", "unknown">> }

RawLabels == {p[1] : p \in FramePairs} \cup {p[2] : p \in FramePairs}

\* As DequeAppend, were the deque unbounded.
DequeAppendUnbounded(history, new_emotion) == Append(history, new_emotion)

\* deque(maxlen=window_size).append: the oldest label is dropped once full.
DequeAppend(history, new_emotion) ==
    IF Len(history) < window_size
    THEN Append(history, new_emotion)
    ELSE Append(Tail(history), new_emotion)

\* set(history)
LabelsOf(history) == {history[i] : i \in 1..Len(history)}

\* history.count(emotion), and emotion_counts[emotion] of the full-window branch
Count(history, emotion) ==
    Cardinality({i \in 1..Len(history) : history[i] = emotion})

FirstIndex(history, emotion) ==
    CHOOSE i \in 1..Len(history) :
        history[i] = emotion /\ \A j \in 1..(i - 1) : history[j] # emotion

\* max(set(history), key=history.count): max returns the first of the most
\* frequent labels in the set's iteration order, which for strings follows
\* their hashes, seeded per process; any of the most frequent labels can be
\* the result.
PartialModes(history) ==
    {e \in LabelsOf(history) :
        \A f \in LabelsOf(history) : Count(history, f) <= Count(history, e)}

\* max(emotion_counts.items(), key=lambda x: x[1])[0]: the dict keeps the
\* labels in the order of their first occurrence in the window, and max
\* returns the first of the most frequent ones.
MostCommon(history) ==
    CHOOSE e \in PartialModes(history) :
        \A f \in PartialModes(history) :
            FirstIndex(history, e) <= FirstIndex(history, f)

\* As Confident, were the count compared with > .
ConfidentStrict(count) == count > confidence_threshold

\* most_common[1] >= self.confidence_threshold
Confident(count) == count >= confidence_threshold

\* As SmoothEmotion, were the most frequent label of a full history returned
\* whatever its count.
SmoothEmotionNoHysteresis(new_emotion, history, current_emotion) ==
    LET h == DequeAppend(history, new_emotion)
    IN  IF Len(h) < confidence_threshold
        THEN PartialModes(h)
        ELSE {MostCommon(h)}

\* smooth_emotion: the labels it can return, the history being the one
\* before the call (the call appends new_emotion to it first).
SmoothEmotion(new_emotion, history, current_emotion) ==
    LET h == DequeAppend(history, new_emotion)
    IN  IF Len(h) < confidence_threshold
        THEN (IF Len(h) > 0 THEN PartialModes(h) ELSE {new_emotion})
        ELSE IF Confident(Count(h, MostCommon(h)))
             THEN {MostCommon(h)}
             ELSE {current_emotion}

\* EmotionSmoother.update
Update(left_emotion, right_emotion) ==
    /\ left_current' \in SmoothEmotion(left_emotion, left_history, left_current)
    /\ left_history' = DequeAppend(left_history, left_emotion)
    /\ right_current' \in SmoothEmotion(right_emotion, right_history, right_current)
    /\ right_history' = DequeAppend(right_history, right_emotion)

SmootherUpdate ==
    /\ \E p \in FramePairs : Update(p[1], p[2])
    /\ UNCHANGED <<dispatchVars, classifyVars, calibratorVars, pipelineVars,
                   observed, concurrencyVars>>

(***************************************************************************)
(* vision.py: analyze_face_emotion.                                        *)
(*                                                                         *)
(* An emotion vector is a record of the seven scores DeepFace reports, in  *)
(* percent: they add up to 100, and dominant_emotion is a label of the     *)
(* highest score.  A mean of vectors is kept exact, as the record          *)
(* [num |-> the per-channel sums, den |-> the divisor]; a comparison of a  *)
(* delta with a threshold is made on both sides times den.                 *)
(***************************************************************************)
Emotions == {"angry", "disgust", "fear", "happy", "sad", "surprise", "neutral"}

Vector(a, d, f, h, s, u) ==
    [angry |-> a, disgust |-> d, fear |-> f, happy |-> h, sad |-> s,
     surprise |-> u, neutral |-> 100 - (a + d + f + h + s + u)]

\* str.lower() on a label: DeepFace's labels are lower-case already.
Lower(label) ==
    CASE label = "Angry"    -> "angry"
      [] label = "Disgust"  -> "disgust"
      [] label = "Fear"     -> "fear"
      [] label = "Happy"    -> "happy"
      [] label = "Sad"      -> "sad"
      [] label = "Surprise" -> "surprise"
      [] label = "Neutral"  -> "neutral"
      [] OTHER              -> label

\* The labels DeepFace can name as dominant_emotion for these scores.
ArgMax(scores) ==
    {e \in Emotions : \A f \in Emotions : scores[f] <= scores[e]}

\* den times (current_score - baseline_score), for emotion_deltas[emotion]
Delta(scores, mean, emotion) == mean.den * scores[emotion] - mean.num[emotion]

\* The four tests of the "if baseline:" block.
DeltaAngry(scores, mean) ==
    LET anger_delta   == Delta(scores, mean, "angry")
        disgust_delta == Delta(scores, mean, "disgust")
        sad_delta     == Delta(scores, mean, "sad")
        happy_delta   == Delta(scores, mean, "happy")
        n             == mean.den
    IN  \/ anger_delta > 8 * n
        \/ /\ anger_delta + disgust_delta + sad_delta > 12 * n
           /\ (anger_delta > 3 * n \/ disgust_delta > 6 * n)
        \/ disgust_delta > 10 * n
        \/ (anger_delta > 5 * n /\ happy_delta < (0 - 5) * n)

\* sorted(emotion_scores.items(), key=lambda x: x[1], reverse=True)[:2]:
\* the two highest scores.
TopTwoScores(scores) ==
    LET first  == CHOOSE v \in {scores[e] : e \in Emotions} :
                      \A e \in Emotions : scores[e] <= v
        others == {e \in Emotions : scores[e] < first}
        tied   == Cardinality({e \in Emotions : scores[e] = first}) >= 2
        second == IF tied \/ others = {} THEN first
                  ELSE CHOOSE v \in {scores[e] : e \in others} :
                           \A e \in others : scores[e] <= v
    IN  <<first, second>>

\* Strategies 1 to 7, on the absolute scores.  anger * 2.5 >= dominant * 0.4
\* is compared times 10, anger >= second * 0.7 likewise.
AbsoluteAngry(scores, dominant) ==
    LET anger_score    == scores.angry
        disgust_score  == scores.disgust
        fear_score     == scores.fear
        sad_score      == scores.sad
        neutral_score  == scores.neutral
        surprise_score == scores.surprise
        happy_score    == scores.happy
        dominant_score == scores[dominant]
        top_two_scores == TopTwoScores(scores)
    IN  \/ (anger_score >= 8 /\ 25 * anger_score >= 4 * dominant_score)
        \/ /\ anger_score + disgust_score + sad_score > 25
           /\ (anger_score > 5 \/ disgust_score > 12)
        \/ (neutral_score > 30 /\ (anger_score > 8 \/ disgust_score > 10))
        \/ disgust_score > 18
        \/ (fear_score > 15 /\ anger_score > 8)
        \/ (surprise_score > 20 /\ anger_score > 6)
        \/ /\ anger_score > 10 /\ happy_score < 15
           /\ \/ anger_score = top_two_scores[1]
              \/ anger_score = top_two_scores[2]
              \/ 10 * anger_score >= 7 * top_two_scores[2]

\* As AnalyzeFaceEmotion, were strategy 1 anger alone at its threshold.
AnalyzeFaceEmotionNoBoostTest(result, base) ==
    IF result = <<>> THEN "unknown"
    ELSE LET scores   == result[1].emotion
             dominant == Lower(result[1].dominant_emotion)
         IN  IF base # <<>> /\ DeltaAngry(scores, base[1]) THEN "angry"
             ELSE IF scores.angry >= 8 \/ AbsoluteAngry(scores, dominant)
                  THEN "angry"
                  ELSE dominant

\* analyze_face_emotion, given what DeepFace.analyze gave for the face and
\* the baseline.  The absolute strategies follow the baseline block whether
\* or not a baseline was given.
AnalyzeFaceEmotion(result, base) ==
    IF result = <<>> THEN "unknown"
    ELSE LET scores   == result[1].emotion
             dominant == Lower(result[1].dominant_emotion)
         IN  IF base # <<>> /\ DeltaAngry(scores, base[1]) THEN "angry"
             ELSE IF AbsoluteAngry(scores, dominant) THEN "angry"
             ELSE dominant

\* The call, on the inputs drawn by InitClassify.
ClassifyFace ==
    /\ face_emotion = "pending"
    /\ face_emotion' = AnalyzeFaceEmotion(deepface_result, baseline)
    /\ UNCHANGED <<deepface_result, baseline, dispatchVars, smootherVars,
                   calibratorVars, pipelineVars, observed, concurrencyVars>>

(***************************************************************************)
(* vision.py: BaselineCalibrator.                                          *)
(***************************************************************************)
MaxSamples == 11        \* the buffer is not grown beyond this length
MaxResets  == 1         \* resets are not counted beyond this number

samples_needed == 10

ZeroVector == [e \in Emotions |-> 0]

\* left_avg / right_avg: per channel, the sum of the side's scores over the
\* samples that have scores for that side.
RECURSIVE SumScores(_, _)
SumScores(samples, side) ==
    IF samples = <<>> THEN ZeroVector
    ELSE LET rest == SumScores(Tail(samples), side)
             s    == Head(samples)[side]
         IN  IF s = <<>> THEN rest
             ELSE [e \in Emotions |-> rest[e] + s[1][e]]

\* [s for s in self.calibration_samples if s['right']]
RECURSIVE CountWith(_, _)
CountWith(samples, side) ==
    IF samples = <<>> THEN 0
    ELSE CountWith(Tail(samples), side)
         + (IF Head(samples)[side] = <<>> THEN 0 ELSE 1)

\* As CanCalculate, were one more sample than samples_needed asked for.
CanCalculateStrict(samples) == Len(samples) > samples_needed

\* not (len(self.calibration_samples) < self.samples_needed)
CanCalculate(samples) == Len(samples) >= samples_needed

\* self.left_baseline: the sums over the samples with left scores, divided
\* by the number of all samples.
LeftBaselineOf(samples) ==
    <<[num |-> SumScores(samples, "left"), den |-> Len(samples)]>>

\* As RightBaselineOf, were the right sums divided by the number of all
\* samples, as the left sums are.
RightBaselineOverAll(samples) ==
    IF CountWith(samples, "right") > 0
    THEN <<[num |-> SumScores(samples, "right"), den |-> Len(samples)]>>
    ELSE <<>>

\* self.right_baseline: the sums over the samples with right scores, divided
\* by the number of those samples; None when there is none.
RightBaselineOf(samples) ==
    IF CountWith(samples, "right") > 0
    THEN <<[num |-> SumScores(samples, "right"),
            den |-> CountWith(samples, "right")]>>
    ELSE <<>>

Returned(call, ok, base) == [call |-> call, ok |-> ok, base |-> base]

\* add_calibration_sample(left_emotion_scores, right_emotion_scores)
AddCalibrationSample(left_emotion_scores, right_emotion_scores) ==
    /\ Len(calibration_samples) < MaxSamples
    /\ calibration_samples' =
           Append(calibration_samples,
                  [left |-> left_emotion_scores, right |-> right_emotion_scores])
    /\ fresh_samples' = fresh_samples + 1
    /\ api_return' = Returned("add_calibration_sample", TRUE, <<>>)
    /\ UNCHANGED <<calibrated, left_baseline, right_baseline, resets>>

\* calculate_baseline(): there is no test of self.calibrated.
CalculateBaseline ==
    /\ IF CanCalculate(calibration_samples)
       THEN /\ left_baseline' = LeftBaselineOf(calibration_samples)
            /\ right_baseline' = RightBaselineOf(calibration_samples)
            /\ calibrated' = TRUE
            /\ api_return' = Returned("calculate_baseline", TRUE, <<>>)
       ELSE /\ api_return' = Returned("calculate_baseline", FALSE, <<>>)
            /\ UNCHANGED <<left_baseline, right_baseline, calibrated>>
    /\ UNCHANGED <<calibration_samples, fresh_samples, resets>>

\* As Reset, were calibrated left as it is.
ResetKeepCalibrated ==
    /\ resets < MaxResets
    /\ left_baseline' = <<>>
    /\ right_baseline' = <<>>
    /\ calibrated' = calibrated
    /\ calibration_samples' = <<>>
    /\ fresh_samples' = 0
    /\ resets' = resets + 1
    /\ api_return' = Returned("reset", TRUE, <<>>)

\* As Reset, were the sample buffer kept.
ResetKeepSamples ==
    /\ resets < MaxResets
    /\ left_baseline' = <<>>
    /\ right_baseline' = <<>>
    /\ calibrated' = FALSE
    /\ fresh_samples' = 0
    /\ resets' = resets + 1
    /\ api_return' = Returned("reset", TRUE, <<>>)
    /\ UNCHANGED calibration_samples

\* reset(), and reset_calibration() which only calls it
Reset ==
    /\ resets < MaxResets
    /\ left_baseline' = <<>>
    /\ right_baseline' = <<>>
    /\ calibrated' = FALSE
    /\ calibration_samples' = <<>>
    /\ fresh_samples' = 0
    /\ resets' = resets + 1
    /\ api_return' = Returned("reset", TRUE, <<>>)

\* As BaselineOf, were the left baseline given for either player.
BaselineOfLeftOnly(player) == left_baseline

\* What get_baseline(player) returns.
BaselineOf(player) == IF player = "left" THEN left_baseline ELSE right_baseline

\* get_baseline(player)
GetBaseline(player) ==
    /\ api_return' = Returned("get_baseline", TRUE, BaselineOf(player))
    /\ UNCHANGED <<calibration_samples, calibrated, left_baseline,
                   right_baseline, fresh_samples, resets>>

\* Raw score vectors of three faces.
Calm  == Vector(2, 1, 1, 10, 5, 1)
Tense == Vector(7, 6, 2, 3, 12, 0)
Rage  == Vector(45, 20, 5, 0, 10, 5)

\* The arguments add_calibration_sample is called with: left scores, and
\* right scores or None.
SampleArguments == {<<(<<Calm>>), <<>>>>, <<(<<Tense>>), (<<Calm>>)>>}

CalibratorCall ==
    /\ \/ \E a \in SampleArguments : AddCalibrationSample(a[1], a[2])
       \/ CalculateBaseline
       \/ Reset
       \/ \E player \in {"left", "right"} : GetBaseline(player)
    /\ UNCHANGED <<dispatchVars, smootherVars, classifyVars, pipelineVars,
                   observed, concurrencyVars>>

(***************************************************************************)
(* vision.py: analyze_player_emotions.                                     *)
(*                                                                         *)
(* A detected face is [x |-> its left edge, result |-> what DeepFace gives *)
(* for its region]; get_raw_emotion_scores and analyze_face_emotion both   *)
(* run DeepFace on the same region of the same frame and get the same      *)
(* result.  detect_faces, get_raw_emotion_scores and analyze_face_emotion  *)
(* catch every exception themselves, so nothing is raised into the         *)
(* function's own except clause.                                           *)
(***************************************************************************)
\* As Unknowns, were the right slot answered 'neutral'.
UnknownLeftOnly == [left |-> "unknown", right |-> "neutral"]

Unknowns == [left |-> "unknown", right |-> "unknown"]

\* As SmoothedEmotions, were the two slots exchanged.
SmoothedEmotionsSwapped(left, right) == [left |-> right, right |-> left]

\* update's return value: {'left': self.left_current, 'right': self.right_current}
SmoothedEmotions(left, right) == [left |-> left, right |-> right]

\* Inserts face f after the faces of fs whose x is not larger.
RECURSIVE InsertByX(_, _)
InsertByX(fs, f) ==
    IF fs = <<>> THEN <<f>>
    ELSE IF Head(fs).x <= f.x THEN <<Head(fs)>> \o InsertByX(Tail(fs), f)
    ELSE <<f>> \o fs

\* As SortByX, were the faces left in the detector's order.
DetectorOrder(fs) == fs

\* sorted(faces, key=lambda f: f[0]): ascending x, stable.
RECURSIVE SortByX(_)
SortByX(fs) ==
    IF fs = <<>> THEN <<>>
    ELSE InsertByX(SortByX(SubSeq(fs, 1, Len(fs) - 1)), fs[Len(fs)])

\* get_raw_emotion_scores: the face's score vector, None when DeepFace failed
GetRawEmotionScores(face) ==
    IF face.result = <<>> THEN <<>> ELSE <<face.result[1].emotion>>

Mode(base) == IF base = <<>> THEN "absolute" ELSE "delta"

\* As NoFaces, were the function not to return early.
NoFacesGoOn(fs) == FALSE

\* if len(faces) == 0: return {'left': 'unknown', 'right': 'unknown'}
NoFaces(fs) == Len(fs) = 0

\* One call analyze_player_emotions(frame), detect_faces giving fs.
AnalyzePlayerEmotions(fs) ==
    /\ faces' = fs
    /\ calls' = calls + 1
    /\ IF NoFaces(fs)
       THEN /\ returned_emotions' = Unknowns
            /\ classified_with' = [left |-> "none", right |-> "none"]
            /\ UNCHANGED <<smootherVars, calibration_samples, calibrated,
                           left_baseline, right_baseline, fresh_samples>>
       ELSE LET faces_sorted   == SortByX(fs)
                base_left      == BaselineOf("left")
                base_right     == BaselineOf("right")
                left_scores    == IF Len(faces_sorted) >= 1
                                  THEN GetRawEmotionScores(faces_sorted[1])
                                  ELSE <<>>
                right_scores   == IF Len(faces_sorted) >= 2
                                  THEN GetRawEmotionScores(faces_sorted[2])
                                  ELSE <<>>
                samples        == Append(calibration_samples,
                                         [left |-> left_scores, right |-> right_scores])
                left_emotion   == IF Len(faces_sorted) >= 1
                                  THEN AnalyzeFaceEmotion(faces_sorted[1].result,
                                                          base_left)
                                  ELSE "unknown"
                right_emotion  == IF Len(faces_sorted) >= 2
                                  THEN AnalyzeFaceEmotion(faces_sorted[2].result,
                                                          base_right)
                                  ELSE "unknown"
            IN  /\ IF ~calibrated /\ left_scores # <<>>
                   THEN /\ calibration_samples' = samples
                        /\ fresh_samples' = fresh_samples + 1
                        /\ IF Len(samples) >= samples_needed /\ CanCalculate(samples)
                           THEN /\ left_baseline' = LeftBaselineOf(samples)
                                /\ right_baseline' = RightBaselineOf(samples)
                                /\ calibrated' = TRUE
                           ELSE UNCHANGED <<left_baseline, right_baseline, calibrated>>
                   ELSE UNCHANGED <<calibration_samples, calibrated, left_baseline,
                                    right_baseline, fresh_samples>>
                /\ Update(left_emotion, right_emotion)
                /\ returned_emotions' = SmoothedEmotions(left_current', right_current')
                /\ classified_with' =
                       [left  |-> IF Len(faces_sorted) >= 1 THEN Mode(base_left)
                                                            ELSE "none",
                        right |-> IF Len(faces_sorted) >= 2 THEN Mode(base_right)
                                                            ELSE "none"]
    /\ UNCHANGED <<dispatchVars, classifyVars, api_return, resets, observed,
                   concurrencyVars>>

\* DeepFace's result for a face with the given scores.
Result(v) == <<[emotion |-> v, dominant_emotion |-> CHOOSE d \in ArgMax(v) : TRUE]>>

Face(x, result) == [x |-> x, result |-> result]

\* Frames of the camera, as detect_faces and DeepFace see them: nobody; one
\* calm face; one face DeepFace fails on; a raging face the detector lists
\* before a calm face to its left.
NoFace     == <<>>
OneCalm    == <<Face(300, Result(Calm))>>
OneFailing == <<Face(300, <<>>)>>
TwoFaces   == <<Face(700, Result(Rage)), Face(100, Result(Calm))>>

VisionFrames == {NoFace, OneCalm, TwoFaces}

MaxCalls == 12      \* calls of analyze_player_emotions in a run

\* Calls of analyze_player_emotions in a run with a recalibration.
MaxRecalibrationCalls == 21

AnalysisCall ==
    /\ calls < MaxCalls
    /\ \E fs \in VisionFrames : AnalyzePlayerEmotions(fs)

\* Frames while somebody recalibrates: nobody, one calm face, or one face
\* DeepFace fails on.
RecalibrationFrames == {NoFace, OneCalm, OneFailing}

RecalibrationCall ==
    /\ calls < MaxRecalibrationCalls
    /\ \E fs \in RecalibrationFrames : AnalyzePlayerEmotions(fs)

\* reset_calibration()
ResetCalibration ==
    /\ Reset
    /\ UNCHANGED <<dispatchVars, smootherVars, classifyVars, pipelineVars, observed,
                   concurrencyVars>>

\* Frames with up to three faces at different positions, listed by the
\* detector in any order, each calm or raging; and the frame DeepFace fails on.
Positions == {50, 300, 900}

AssignFaces == {Face(x, Result(v)) : x \in Positions, v \in {Calm, Rage}}

AssignFrames ==
    {NoFace, OneFailing}
    \cup {<<f>> : f \in AssignFaces}
    \cup {fs \in {<<f, g>> : f \in AssignFaces, g \in AssignFaces} :
              fs[1].x # fs[2].x}
    \cup {fs \in {<<f, g, h>> : f \in AssignFaces, g \in AssignFaces,
                                 h \in AssignFaces} :
              fs[1].x # fs[2].x /\ fs[1].x # fs[3].x /\ fs[2].x # fs[3].x}

MaxAssignCalls == 2     \* calls of analyze_player_emotions in a run

AssignCall ==
    /\ calls < MaxAssignCalls
    /\ \E fs \in AssignFrames : AnalyzePlayerEmotions(fs)

\* update called on raw label pairs that are written down as they arrive.
HistoryPairs == {<<"angry", "unknown">>, <<"neutral", "angry">>}

MaxObserved == 9        \* raw label pairs given to update in a run

ObservedUpdate ==
    /\ Len(observed) < MaxObserved
    /\ \E p \in HistoryPairs :
           /\ Update(p[1], p[2])
           /\ observed' = Append(observed, p)
    /\ UNCHANGED <<dispatchVars, classifyVars, calibratorVars, pipelineVars,
                   concurrencyVars>>

(***************************************************************************)
(* main.py: main_app and analysis_worker as two threads around data_lock.  *)
(*                                                                         *)
(* Each thread moves one statement, or one lock operation, at a time.  A   *)
(* `with data_lock:` block is an acquire, its statements, and a release    *)
(* together with the last of them.  light, mic, roaster and speaker are    *)
(* objects of classes that main.py imports; their calls return.            *)
(***************************************************************************)
CAMERA_WIDTH == 1280

CENTER_LINE == CAMERA_WIDTH \div 2

\* One face of DeepFace.analyze's list: region x and dominant_emotion.
Detected(x, emotion) == [x |-> x, dominant_emotion |-> emotion]

Raised == [raised |-> TRUE, faces |-> <<>>]

Analysed(fs) == [raised |-> FALSE, faces |-> fs]

\* What DeepFace.analyze can do with a frame: raise, find nobody, an angry
\* face on the left, a frightened face on the right, or a face on each side.
AnalysisOutcomes ==
    { Raised,
      Analysed(<<>>),
      Analysed(<<Detected(100, "angry")>>),
      Analysed(<<Detected(900, "fear")>>),
      Analysed(<<Detected(800, "happy"), Detected(200, "angry")>>) }

NobodySeen ==
    [p1_emotion |-> "unknown", p1_box |-> <<>>,
     p2_emotion |-> "unknown", p2_box |-> <<>>]

\* As Remapped, were the label of a face published as DeepFace gave it.
RemappedNot(emotion) == emotion

\* if emotion == "fear": emotion = "angry"
Remapped(emotion) == IF emotion = "fear" THEN "angry" ELSE emotion

\* The loop over the faces: p1_emotion, p1_box, p2_emotion, p2_box at its end.
RECURSIVE Assigned(_, _)
Assigned(fs, locals) ==
    IF fs = <<>> THEN locals
    ELSE LET face    == Head(fs)
             emotion == Remapped(face.dominant_emotion)
         IN  Assigned(Tail(fs),
                      IF face.x < CENTER_LINE
                      THEN [locals EXCEPT !.p1_emotion = emotion, !.p1_box = <<face.x>>]
                      ELSE [locals EXCEPT !.p2_emotion = emotion, !.p2_box = <<face.x>>])

\* As WorkerLocals, were the region of a face not kept.
WorkerLocalsBoxless(res) ==
    [Assigned(res.faces, NobodySeen) EXCEPT !.p1_box = <<>>, !.p2_box = <<>>]

\* p1_emotion, p1_box, p2_emotion, p2_box as the publish block finds them
WorkerLocals(res) == Assigned(res.faces, NobodySeen)

\* As Acquire, were the lock granted whoever holds it.
AcquireUnguarded(thread) == data_lock' = thread

\* data_lock.acquire() on entering a with block
Acquire(thread) == data_lock = "free" /\ data_lock' = thread

\* As Release, were the worker to keep the lock on leaving its with blocks.
ReleaseNotByWorker(thread) ==
    data_lock' = IF thread = "worker" THEN data_lock ELSE "free"

\* As Release, were main_app to keep the lock on leaving its with blocks.
ReleaseNotByMain(thread) ==
    data_lock' = IF thread = "main" THEN data_lock ELSE "free"

\* data_lock.release() on leaving a with block
Release(thread) == data_lock' = "free"

\* As LoopContinues, were the flag never looked at.
LoopContinuesAnyway == TRUE

\* while app_running:
LoopContinues == app_running

\* As AfterFailure, were the worker to end on a failed analysis.
AfterFailureStop == "stopped"

\* After the except block the worker is at time.sleep(ANALYSIS_INTERVAL).
AfterFailure == "sleep"

\* As AfterEmptyStore, were the worker to retry without sleeping.
AfterEmptyStoreSpin == "loop"

\* if frame_to_analyze is None: time.sleep(ANALYSIS_INTERVAL); continue
AfterEmptyStore == "sleep"

\* As JoinReturns, were the thread not waited for.
JoinReturnsAtOnce == TRUE

\* analysis_thread.join() returns once analysis_worker has returned.
JoinReturns == worker_pc = "stopped"

\* As AfterCameraFailure, were main_app to go on without a camera.
AfterCameraFailureGoOn == "setup"

\* except Exception: ... return
AfterCameraFailure == "aborted"

Bump(n) == IF n < 2 THEN n + 1 ELSE n

workerVars == <<worker_pc, frame_to_analyze, results, late_analyses, late_publishes,
               cycle>>

sharedEmotion == <<player_1_emotion, player_2_emotion, player_1_box, player_2_box>>

mainVars == <<main_pc, p1_box_copy, p2_box_copy, camera>>

\* ---- analysis_worker

\* while app_running: ... print("[Analysis Thread] Stopped.")
WorkerLoopTest ==
    /\ worker_pc = "loop"
    /\ worker_pc' = IF LoopContinues THEN "lock_copy" ELSE "stopped"
    /\ frame_to_analyze' = IF LoopContinues THEN 0 ELSE frame_to_analyze
    /\ UNCHANGED <<data_lock, results, late_analyses, late_publishes, cycle>>

WorkerLockCopy ==
    /\ worker_pc = "lock_copy"
    /\ Acquire("worker")
    /\ worker_pc' = "copy"
    /\ UNCHANGED <<frame_to_analyze, results, late_analyses, late_publishes, cycle>>

\* if latest_frame is not None: frame_to_analyze = latest_frame.copy()
WorkerCopy ==
    /\ worker_pc = "copy"
    /\ frame_to_analyze' = latest_frame
    /\ Release("worker")
    /\ worker_pc' = "check"
    /\ cycle' = <<"read">>
    /\ UNCHANGED <<results, late_analyses, late_publishes>>

\* if frame_to_analyze is None: sleep, continue; else DeepFace.analyze is entered
WorkerCheck ==
    /\ worker_pc = "check"
    /\ IF frame_to_analyze = 0
       THEN worker_pc' = AfterEmptyStore /\ UNCHANGED <<late_analyses, cycle>>
       ELSE /\ worker_pc' = "analyze"
            /\ cycle' = Append(cycle, "analyze")
            /\ late_analyses' = IF app_running THEN late_analyses
                                ELSE Bump(late_analyses)
    /\ UNCHANGED <<data_lock, frame_to_analyze, results, late_publishes>>

\* DeepFace.analyze returns or raises, and the loop over the faces runs.
WorkerAnalyze ==
    /\ worker_pc = "analyze"
    /\ \E outcome \in AnalysisOutcomes :
           /\ results' = outcome
           /\ worker_pc' = IF outcome.raised THEN "lock_except" ELSE "lock_publish"
    /\ UNCHANGED <<data_lock, frame_to_analyze, late_analyses, late_publishes, cycle>>

WorkerLockPublish ==
    /\ worker_pc \in {"lock_publish", "lock_except"}
    /\ Acquire("worker")
    /\ worker_pc' = IF worker_pc = "lock_publish" THEN "publish_1" ELSE "except_1"
    /\ late_publishes' = IF app_running THEN late_publishes ELSE Bump(late_publishes)
    /\ UNCHANGED <<frame_to_analyze, results, late_analyses, cycle>>

\* The four assignments of either with block, one at a time; the lock is
\* released with the fourth.
WorkerPublish ==
    LET values == IF worker_pc \in {"publish_1", "publish_2", "publish_3", "publish_4"}
                  THEN WorkerLocals(results) ELSE NobodySeen
    IN  /\ \/ /\ worker_pc \in {"publish_1", "except_1"}
              /\ player_1_emotion' = values.p1_emotion
              /\ worker_pc' = IF worker_pc = "publish_1" THEN "publish_2" ELSE "except_2"
              /\ UNCHANGED <<player_2_emotion, player_1_box, player_2_box, data_lock,
                             cycle>>
           \/ /\ worker_pc \in {"publish_2", "except_2"}
              /\ player_2_emotion' = values.p2_emotion
              /\ worker_pc' = IF worker_pc = "publish_2" THEN "publish_3" ELSE "except_3"
              /\ UNCHANGED <<player_1_emotion, player_1_box, player_2_box, data_lock,
                             cycle>>
           \/ /\ worker_pc \in {"publish_3", "except_3"}
              /\ player_1_box' = values.p1_box
              /\ worker_pc' = IF worker_pc = "publish_3" THEN "publish_4" ELSE "except_4"
              /\ UNCHANGED <<player_1_emotion, player_2_emotion, player_2_box, data_lock,
                             cycle>>
           \/ /\ worker_pc \in {"publish_4", "except_4"}
              /\ player_2_box' = values.p2_box
              /\ Release("worker")
              /\ worker_pc' = IF worker_pc = "publish_4" THEN "sleep" ELSE AfterFailure
              /\ cycle' = Append(cycle, "publish")
              /\ UNCHANGED <<player_1_emotion, player_2_emotion, player_1_box>>
        /\ UNCHANGED <<frame_to_analyze, results, late_analyses, late_publishes>>

\* time.sleep(ANALYSIS_INTERVAL), at line 72 or at line 119
WorkerSleep ==
    /\ worker_pc = "sleep"
    /\ worker_pc' = "loop"
    /\ cycle' = Append(cycle, "sleep")
    /\ UNCHANGED <<data_lock, frame_to_analyze, results, late_analyses, late_publishes>>

\* The steps of analysis_worker other than the return of DeepFace.analyze.
WorkerOwnStep ==
    /\ \/ WorkerLoopTest /\ UNCHANGED sharedEmotion
       \/ WorkerLockCopy /\ UNCHANGED sharedEmotion
       \/ WorkerCopy /\ UNCHANGED sharedEmotion
       \/ WorkerCheck /\ UNCHANGED sharedEmotion
       \/ WorkerLockPublish /\ UNCHANGED sharedEmotion
       \/ WorkerPublish
       \/ WorkerSleep /\ UNCHANGED sharedEmotion
    /\ UNCHANGED <<mainVars, app_running, latest_frame, dispatchVars>>
    /\ UNCHANGED <<smootherVars, classifyVars, calibratorVars, pipelineVars, observed>>
    /\ UNCHANGED <<shakeVars, audioVars, frameVars, micVars>>

AnalysisReturns ==
    /\ WorkerAnalyze
    /\ UNCHANGED <<sharedEmotion, mainVars, app_running, latest_frame, dispatchVars>>
    /\ UNCHANGED <<smootherVars, classifyVars, calibratorVars, pipelineVars, observed>>
    /\ UNCHANGED <<shakeVars, audioVars, frameVars, micVars>>

\* ---- main_app

LoopPcs == {"capture", "lock_frame", "write_frame", "lock_snap", "snap_1", "snap_2",
            "triggers", "dispatch", "render"}

CleanupPcs == {"cleanup", "lights", "join", "stop_camera", "done"}

\* picam2 = Picamera2() ... start(), or the except clause
MainCameraInit ==
    /\ main_pc = "init"
    /\ \E camera_ok \in BOOLEAN :
           /\ camera' = IF camera_ok THEN "ready" ELSE "failed"
           /\ main_pc' = IF camera_ok THEN "setup" ELSE AfterCameraFailure
    /\ UNCHANGED <<worker_pc, data_lock, app_running, latest_frame, dispatchVars,
                   p1_box_copy, p2_box_copy>>

\* light ... speaker are made, the light goes on, analysis_thread.start()
MainSetup ==
    /\ main_pc = "setup"
    /\ worker_pc' = "loop"
    /\ main_pc' = "capture"
    /\ UNCHANGED <<data_lock, app_running, latest_frame, dispatchVars,
                   p1_box_copy, p2_box_copy, camera>>

\* current_time = time.time(); frame_bgr = picam2.capture_array(), which may raise
MainCapture ==
    /\ main_pc = "capture"
    /\ \E captured \in BOOLEAN :
           main_pc' = IF captured THEN "lock_frame" ELSE "cleanup"
    /\ UNCHANGED <<worker_pc, data_lock, app_running, latest_frame, dispatchVars,
                   p1_box_copy, p2_box_copy, camera>>

MainLock ==
    /\ main_pc \in {"lock_frame", "lock_snap"}
    /\ Acquire("main")
    /\ main_pc' = IF main_pc = "lock_frame" THEN "write_frame" ELSE "snap_1"
    /\ UNCHANGED <<worker_pc, app_running, latest_frame, dispatchVars,
                   p1_box_copy, p2_box_copy, camera>>

\* latest_frame = frame_bgr.copy()
MainWriteFrame ==
    /\ main_pc = "write_frame"
    /\ latest_frame' = 1
    /\ Release("main")
    /\ main_pc' = "lock_snap"
    /\ UNCHANGED <<worker_pc, app_running, dispatchVars, p1_box_copy, p2_box_copy, camera>>

\* p1_emo_copy, p1_box_copy = player_1_emotion, player_1_box
MainSnapshot1 ==
    /\ main_pc = "snap_1"
    /\ p1_emo_copy' = player_1_emotion
    /\ p1_box_copy' = player_1_box
    /\ main_pc' = "snap_2"
    /\ UNCHANGED <<worker_pc, data_lock, app_running, latest_frame, p2_emo_copy,
                   p2_box_copy, current_time, player_1_last_roast,
                   player_2_last_roast, hardware_last_roast, is_shaking,
                   is_yelling, fired, lastAlert, streak, camera>>

\* p2_emo_copy, p2_box_copy = player_2_emotion, player_2_box
MainSnapshot2 ==
    /\ main_pc = "snap_2"
    /\ p2_emo_copy' = player_2_emotion
    /\ p2_box_copy' = player_2_box
    /\ Release("main")
    /\ main_pc' = "triggers"
    /\ UNCHANGED <<worker_pc, app_running, latest_frame, p1_emo_copy,
                   p1_box_copy, current_time, player_1_last_roast,
                   player_2_last_roast, hardware_last_roast, is_shaking,
                   is_yelling, fired, lastAlert, streak, camera>>

\* check_for_shake(gyro) and mic.check_for_yell(): nothing shakes or yells here
MainTriggers ==
    /\ main_pc = "triggers"
    /\ main_pc' = "dispatch"
    /\ UNCHANGED <<worker_pc, data_lock, app_running, latest_frame, dispatchVars,
                   p1_box_copy, p2_box_copy, camera>>

\* The roasting logic on the snapshot, in the same second as the iteration
\* before.
MainDispatch ==
    /\ main_pc = "dispatch"
    /\ Iterate(0, FALSE, FALSE, p1_emo_copy, p2_emo_copy)
    /\ main_pc' = "render"
    /\ UNCHANGED <<worker_pc, data_lock, app_running, latest_frame,
                   p1_box_copy, p2_box_copy, camera>>

\* The overlay, imshow and waitKey: 'q' breaks the loop, anything raised
\* ends it as well.
MainRender ==
    /\ main_pc = "render"
    /\ \E quit \in BOOLEAN : main_pc' = IF quit THEN "cleanup" ELSE "capture"
    /\ UNCHANGED <<worker_pc, data_lock, app_running, latest_frame, dispatchVars,
                   p1_box_copy, p2_box_copy, camera>>

\* finally: app_running = False
MainClearFlag ==
    /\ main_pc = "cleanup"
    /\ app_running' = FALSE
    /\ main_pc' = "lights"
    /\ UNCHANGED <<worker_pc, data_lock, latest_frame, dispatchVars,
                   p1_box_copy, p2_box_copy, camera>>

\* light.off(); mic.stop()
MainLightsOff ==
    /\ main_pc = "lights"
    /\ main_pc' = "join"
    /\ UNCHANGED <<worker_pc, data_lock, app_running, latest_frame, dispatchVars,
                   p1_box_copy, p2_box_copy, camera>>

\* analysis_thread.join()
MainJoin ==
    /\ main_pc = "join"
    /\ JoinReturns
    /\ main_pc' = "stop_camera"
    /\ UNCHANGED <<worker_pc, data_lock, app_running, latest_frame, dispatchVars,
                   p1_box_copy, p2_box_copy, camera>>

\* picam2.stop(); cv2.destroyAllWindows(); print("... Shutdown complete.")
MainStopCamera ==
    /\ main_pc = "stop_camera"
    /\ main_pc' = "done"
    /\ UNCHANGED <<worker_pc, data_lock, app_running, latest_frame, dispatchVars,
                   p1_box_copy, p2_box_copy, camera>>

MainStep ==
    /\ \/ MainCameraInit
       \/ MainSetup
       \/ MainCapture
       \/ MainLock
       \/ MainWriteFrame
       \/ MainSnapshot1
       \/ MainSnapshot2
       \/ MainTriggers
       \/ MainDispatch
       \/ MainRender
       \/ MainClearFlag
       \/ MainLightsOff
       \/ MainJoin
       \/ MainStopCamera
    /\ UNCHANGED <<sharedEmotion, frame_to_analyze, results, late_analyses,
                   late_publishes, cycle>>
    /\ UNCHANGED <<smootherVars, classifyVars, calibratorVars, pipelineVars, observed>>
    /\ UNCHANGED <<shakeVars, audioVars, frameVars, micVars>>

(***************************************************************************)
(* hardware.py: the shake flag between _serial_reader_thread and           *)
(* check_for_shake, around _serial_lock.                                   *)
(*                                                                         *)
(* The reader reads a line outside the lock and records it inside; a       *)
(* SHAKE counts as received when the reader has recorded it.               *)
(***************************************************************************)
SerialLines == {"SHAKE", "ARDUINO_READY", ""}

\* As AcquireSerial, were the lock granted whoever holds it.
AcquireSerialUnguarded(thread) == serial_lock' = thread

\* with _serial_lock: on entry
AcquireSerial(thread) == serial_lock = "free" /\ serial_lock' = thread

\* with _serial_lock: on exit
ReleaseSerial == serial_lock' = "free"

shakeHistory == <<lines_read, shakes_received, true_returns, since_true, since_test,
                  last_return>>

\* setup_gyro: the port opens and the reader thread is started, or None
SetupGyro ==
    /\ gyro = "unset"
    /\ \E connected \in BOOLEAN :
           IF connected
           THEN gyro' = "serial" /\ serial_running' = TRUE /\ reader_pc' = "loop"
           ELSE gyro' = "None" /\ UNCHANGED <<serial_running, reader_pc>>
    /\ UNCHANGED <<shake_detected, serial_lock, line, checker_pc, shakeHistory>>

\* while _serial_running: ... line = _arduino_serial.readline().decode().strip()
ReaderReadline ==
    /\ reader_pc = "loop"
    /\ serial_running
    /\ \E l \in SerialLines :
           /\ l = "SHAKE" => lines_read < MaxShakes
           /\ line' = l
           /\ lines_read' = IF l = "SHAKE" THEN lines_read + 1 ELSE lines_read
    /\ reader_pc' = "lock"
    /\ UNCHANGED <<gyro, serial_running, shake_detected, serial_lock, checker_pc,
                   shakes_received, true_returns, since_true, since_test, last_return>>

ReaderLock ==
    /\ reader_pc = "lock"
    /\ AcquireSerial("reader")
    /\ reader_pc' = "record"
    /\ UNCHANGED <<gyro, serial_running, shake_detected, line, checker_pc, shakeHistory>>

\* if line == "SHAKE": _shake_detected = True
ReaderRecord ==
    /\ reader_pc = "record"
    /\ IF line = "SHAKE"
       THEN /\ shake_detected' = TRUE
            /\ shakes_received' = shakes_received + 1
            /\ since_true' = since_true + 1
            /\ since_test' = since_test + 1
       ELSE UNCHANGED <<shake_detected, shakes_received, since_true, since_test>>
    /\ ReleaseSerial
    /\ reader_pc' = "loop"
    /\ UNCHANGED <<gyro, serial_running, line, checker_pc, lines_read, true_returns,
                   last_return>>

ReaderStep == ReaderReadline \/ ReaderLock \/ ReaderRecord

\* main_app calls check_for_shake(gyro), setup_gyro having returned.
CheckerCall ==
    /\ checker_pc = "idle"
    /\ gyro # "unset"
    /\ checker_pc' = "lock"
    /\ UNCHANGED <<gyro, serial_running, shake_detected, serial_lock, line, reader_pc,
                   shakeHistory>>

CheckerLock ==
    /\ checker_pc = "lock"
    /\ AcquireSerial("checker")
    /\ checker_pc' = "test"
    /\ UNCHANGED <<gyro, serial_running, shake_detected, line, reader_pc, shakeHistory>>

\* if _shake_detected:
CheckerTest ==
    /\ checker_pc = "test"
    /\ checker_pc' = IF shake_detected THEN "clear" ELSE "return_false"
    /\ since_test' = 0
    /\ last_return' = [value |-> "pending", since_true |-> since_true,
                       since_test |-> since_test]
    /\ UNCHANGED <<gyro, serial_running, shake_detected, serial_lock, line, reader_pc,
                   lines_read, shakes_received, true_returns, since_true>>

\* _shake_detected = False
CheckerClear ==
    /\ checker_pc = "clear"
    /\ shake_detected' = FALSE
    /\ checker_pc' = "return_true"
    /\ UNCHANGED <<gyro, serial_running, serial_lock, line, reader_pc, shakeHistory>>

\* return True, leaving the with block / the with block ends; return False
CheckerReturn ==
    /\ checker_pc \in {"return_true", "return_false"}
    /\ ReleaseSerial
    /\ checker_pc' = "idle"
    /\ last_return' = [last_return EXCEPT
                           !.value = IF checker_pc = "return_true" THEN "True"
                                     ELSE "False"]
    /\ true_returns' = IF checker_pc = "return_true" THEN true_returns + 1
                       ELSE true_returns
    /\ since_true' = IF checker_pc = "return_true" THEN 0 ELSE since_true
    /\ UNCHANGED <<gyro, serial_running, shake_detected, line, reader_pc, lines_read,
                   shakes_received, since_test>>

CheckerStep == CheckerCall \/ CheckerLock \/ CheckerTest \/ CheckerClear \/ CheckerReturn

\* The module globals of hardware.py, setup_gyro not yet called.
InitShake ==
    /\ gyro = "unset"
    /\ serial_running = FALSE
    /\ shake_detected = FALSE
    /\ serial_lock = "free"
    /\ line = ""
    /\ reader_pc = "not_started"
    /\ checker_pc = "idle"
    /\ lines_read = 0
    /\ shakes_received = 0
    /\ true_returns = 0
    /\ since_true = 0
    /\ since_test = 0
    /\ last_return = [value |-> "none", since_true |-> 0, since_test |-> 0]

(***************************************************************************)
(* audio.py: Speaker.speak, and the fast loop's roasting logic calling it. *)
(***************************************************************************)
\* What can go wrong in one call of speak: nothing; gTTS or tts.save
\* raises; ffmpeg fails or is missing (_convert_to_wav returns False);
\* _convert_to_wav raises something else; aplay exits non-zero; aplay is
\* missing.
AudioFailures == {"none", "tts", "convert", "convert_other", "playback", "no_aplay"}

\* _convert_to_wav: True, False, or the exception it lets through
ConvertToWav(failure) ==
    CASE failure = "convert"       -> "False"
      [] failure = "convert_other" -> "OSError"
      [] OTHER                     -> "True"

\* How the try block of speak ends: completed, the early return, or the
\* exception raised in it.
SpeakBody(failure) ==
    IF failure = "tts" THEN "gTTSError"
    ELSE IF ConvertToWav(failure) = "False" THEN "return"
    ELSE IF ConvertToWav(failure) # "True" THEN ConvertToWav(failure)
    ELSE IF failure = "playback" THEN "CalledProcessError"
    ELSE IF failure = "no_aplay" THEN "FileNotFoundError"
    ELSE "completed"

\* As Caught, were except subprocess.CalledProcessError the only clause.
CaughtPlaybackOnly(exception) == exception = "CalledProcessError"

\* except subprocess.CalledProcessError / except Exception
Caught(exception) ==
    exception \in {"CalledProcessError", "gTTSError", "OSError", "FileNotFoundError"}

\* speak: how it returns to its caller, whether _cleanup ran (the finally
\* clause), and whether the roast was played.
Speak(failure) ==
    LET end == SpeakBody(failure)
    IN  [returned |-> IF end \in {"completed", "return"} \/ Caught(end)
                      THEN "normally" ELSE end,
         cleanup  |-> TRUE,
         played   |-> end = "completed"]

NotSpoken == [returned |-> "not called", cleanup |-> FALSE, played |-> FALSE]

\* One iteration of the while True loop whose speak call, if a branch is
\* taken, meets the given failure.  An exception out of speak leaves the
\* loop before the timestamps of the branch are written.
IterateSpeaking(dt, shake, yell, p1_emo, p2_emo, failure) ==
    LET now   == current_time + dt
        said  == Speak(failure)
    IN  /\ IF said.returned # "normally"
           THEN /\ current_time' = now
                /\ p1_emo_copy' = p1_emo
                /\ p2_emo_copy' = p2_emo
                /\ is_shaking' = shake
                /\ is_yelling' = yell
                /\ fired' = Branches(shake, yell, p1_emo, p2_emo, now,
                                     player_1_last_roast, player_2_last_roast,
                                     hardware_last_roast)
                /\ fast_loop' = "left by an exception"
                /\ UNCHANGED <<player_1_last_roast, player_2_last_roast,
                               hardware_last_roast, lastAlert, streak>>
           ELSE /\ Iterate(dt, shake, yell, p1_emo, p2_emo)
                /\ UNCHANGED fast_loop
        /\ audio_failure' = failure
        /\ spoken' = said

\* One iteration in which no branch is taken: speak is not called.
IterateSilent(dt, shake, yell, p1_emo, p2_emo) ==
    /\ Iterate(dt, shake, yell, p1_emo, p2_emo)
    /\ audio_failure' = "none"
    /\ spoken' = NotSpoken
    /\ UNCHANGED fast_loop

FastLoopSpeaking ==
    /\ fast_loop = "running"
    /\ \E dt \in 0..MaxStep, shake \in BOOLEAN, yell \in BOOLEAN,
          p1_emo \in SnapshotLabels, p2_emo \in SnapshotLabels :
           /\ current_time + dt <= MaxAudioTime
           /\ IF Branches(shake, yell, p1_emo, p2_emo, current_time + dt,
                          player_1_last_roast, player_2_last_roast,
                          hardware_last_roast) = {}
              THEN IterateSilent(dt, shake, yell, p1_emo, p2_emo)
              ELSE \E failure \in AudioFailures :
                      IterateSpeaking(dt, shake, yell, p1_emo, p2_emo, failure)
    /\ UNCHANGED <<smootherVars, classifyVars, calibratorVars, pipelineVars,
                   observed, threadVars, shakeVars, frameVars, micVars>>

InitAudio ==
    /\ fast_loop = "running"
    /\ audio_failure = "none"
    /\ spoken = NotSpoken

(***************************************************************************)
(* main.py: the frame arrays.  An array is a place in `arrays`; a variable *)
(* that holds a frame holds the place of its array, 0 for None.  Drawing   *)
(* writes into the array frame_bgr refers to.                              *)
(***************************************************************************)
\* As CopyOf, were .copy() to give back the array itself.
CopyOfAliased(array) == [array |-> array, arrays |-> arrays]

\* array.copy(): a new array with the same content
CopyOf(array) ==
    [array |-> Len(arrays) + 1, arrays |-> Append(arrays, arrays[array])]

Shot(n) == [image |-> n, overlay |-> FALSE]

framesOther == <<dispatchVars, smootherVars, classifyVars, calibratorVars, pipelineVars,
                 observed, shakeVars, audioVars, micVars, app_running, sharedEmotion, results,
                 p1_box_copy, p2_box_copy, camera, late_analyses, late_publishes, cycle>>

\* The camera is started and analysis_thread.start() is called.
FramesStart ==
    /\ main_pc = "init"
    /\ main_pc' = "capture"
    /\ worker_pc' = "lock_copy"
    /\ UNCHANGED <<data_lock, latest_frame, frame_to_analyze, frameVars, framesOther>>

\* frame_bgr = picam2.capture_array(): the next image, in a new array or
\* in the array frame_bgr already refers to
FramesCapture ==
    /\ main_pc = "capture"
    /\ shots < MaxShots
    /\ shots' = shots + 1
    /\ \/ /\ Len(arrays) < MaxArrays
          /\ arrays' = Append(arrays, Shot(shots + 1))
          /\ frame_bgr' = Len(arrays) + 1
       \/ /\ frame_bgr # 0
          /\ arrays' = [arrays EXCEPT ![frame_bgr] = Shot(shots + 1)]
          /\ UNCHANGED frame_bgr
    /\ main_pc' = "lock_frame"
    /\ UNCHANGED <<worker_pc, data_lock, latest_frame, frame_to_analyze, stored_image,
                   analysed_image, seen, framesOther>>

FramesMainLock ==
    /\ main_pc = "lock_frame"
    /\ Acquire("main")
    /\ main_pc' = "write_frame"
    /\ UNCHANGED <<worker_pc, latest_frame, frame_to_analyze, frameVars, framesOther>>

\* latest_frame = frame_bgr.copy()
FramesStore ==
    /\ main_pc = "write_frame"
    /\ Len(arrays) < MaxArrays
    /\ latest_frame' = CopyOf(frame_bgr).array
    /\ arrays' = CopyOf(frame_bgr).arrays
    /\ stored_image' = <<arrays[frame_bgr]>>
    /\ Release("main")
    /\ main_pc' = "render"
    /\ UNCHANGED <<worker_pc, frame_to_analyze, frame_bgr, shots, analysed_image, seen,
                   framesOther>>

\* cv2.putText(frame_bgr, ...), cv2.rectangle(frame_bgr, ...), imshow
FramesDraw ==
    /\ main_pc = "render"
    /\ arrays' = [arrays EXCEPT ![frame_bgr].overlay = TRUE]
    /\ main_pc' = "capture"
    /\ UNCHANGED <<worker_pc, data_lock, latest_frame, frame_to_analyze, frame_bgr,
                   shots, stored_image, analysed_image, seen, framesOther>>

FramesWorkerLock ==
    /\ worker_pc = "lock_copy"
    /\ Acquire("worker")
    /\ frame_to_analyze' = 0
    /\ worker_pc' = "copy"
    /\ UNCHANGED <<main_pc, latest_frame, frameVars, framesOther>>

\* if latest_frame is not None: frame_to_analyze = latest_frame.copy()
FramesTake ==
    /\ worker_pc = "copy"
    /\ IF latest_frame = 0
       THEN /\ worker_pc' = "lock_copy"
            /\ UNCHANGED <<frame_to_analyze, arrays, analysed_image>>
       ELSE /\ Len(arrays) < MaxArrays
            /\ frame_to_analyze' = CopyOf(latest_frame).array
            /\ arrays' = CopyOf(latest_frame).arrays
            /\ analysed_image' = <<arrays[latest_frame]>>
            /\ worker_pc' = "analyze"
    /\ Release("worker")
    /\ UNCHANGED <<main_pc, latest_frame, frame_bgr, shots, stored_image, seen,
                   framesOther>>

\* DeepFace.analyze(img_path=frame_to_analyze, ...) reads the array
FramesAnalyze ==
    /\ worker_pc = "analyze"
    /\ seen' = <<arrays[frame_to_analyze]>>
    /\ worker_pc' = "lock_copy"
    /\ UNCHANGED <<main_pc, data_lock, latest_frame, frame_to_analyze, arrays, frame_bgr,
                   shots, stored_image, analysed_image, framesOther>>

InitFrames ==
    /\ arrays = <<>>
    /\ frame_bgr = 0
    /\ shots = 0
    /\ stored_image = <<>>
    /\ analysed_image = <<>>
    /\ seen = <<>>

(***************************************************************************)
(* main.py, step 5: the fast loop reading the shake flag and the yell      *)
(* flag, then dispatching.  MicrophoneMonitor is imported by main.py from  *)
(* microphone.py, which does not define it; its flag is read and reset by  *)
(* check_for_yell and set when the microphone hears a yell.                *)
(***************************************************************************)
\* As ShakeRead, were a shake once read to stay read.
ShakeReadKept(returned, previous) == returned \/ previous

\* is_shaking = check_for_shake(gyro): this iteration's read, whatever the
\* one before it was
ShakeRead(returned, previous) == returned

\* The microphone hears a yell.
MicHearsYell ==
    /\ yells_heard < MaxYells
    /\ yell_detected' = TRUE
    /\ yells_heard' = yells_heard + 1
    /\ yells_since_read' = yells_since_read + 1
    /\ UNCHANGED <<last_yell, shakeVars, dispatchVars>>

\* check_for_shake returns; is_yelling = mic.check_for_yell(); the roasting
\* logic runs on the two reads.  No analysis has been published: both
\* players' labels are the "unknown" they start with.
LoopReadsSignals ==
    /\ CheckerReturn
    /\ yell_detected' = FALSE
    /\ yells_since_read' = 0
    /\ last_yell' = [value |-> yell_detected, since_read |-> yells_since_read]
    /\ UNCHANGED yells_heard
    /\ \E dt \in 0..MaxStep :
           /\ current_time + dt <= MaxSignalTime
           /\ Iterate(dt, ShakeRead(checker_pc = "return_true", is_shaking),
                      yell_detected, "unknown", "unknown")

\* The steps of check_for_shake before its return.
LoopChecksShake ==
    /\ CheckerCall \/ CheckerLock \/ CheckerTest \/ CheckerClear
    /\ UNCHANGED <<micVars, dispatchVars>>

ReaderRuns ==
    /\ SetupGyro \/ ReaderStep
    /\ UNCHANGED <<micVars, dispatchVars>>

InitMic ==
    /\ yell_detected = FALSE
    /\ yells_heard = 0
    /\ yells_since_read = 0
    /\ last_yell = [value |-> FALSE, since_read |-> 0]

InitDispatch ==
    /\ current_time = StartTime
    /\ player_1_last_roast = 0
    /\ player_2_last_roast = 0
    /\ hardware_last_roast = 0
    /\ p1_emo_copy = "unknown"
    /\ p2_emo_copy = "unknown"
    /\ is_shaking = FALSE
    /\ is_yelling = FALSE
    /\ fired = {}
    /\ lastAlert = [k \in Kinds |-> 0]
    /\ streak = [k \in Kinds |-> 0]

InitSmoother ==
    /\ left_history = <<>>
    /\ right_history = <<>>
    /\ left_current = "unknown"
    /\ right_current = "unknown"

NoCall ==
    /\ deepface_result = <<>>
    /\ baseline = <<>>
    /\ face_emotion = "pending"

\* BaselineCalibrator.__init__
InitCalibrator ==
    /\ left_baseline = <<>>
    /\ right_baseline = <<>>
    /\ calibrated = FALSE
    /\ calibration_samples = <<>>
    /\ api_return = Returned("__init__", TRUE, <<>>)
    /\ fresh_samples = 0
    /\ resets = 0

InitPipeline ==
    /\ calls = 0
    /\ faces = <<>>
    /\ returned_emotions = Unknowns
    /\ classified_with = [left |-> "none", right |-> "none"]
    /\ observed = <<>>

\* The module globals of main.py, main_app not yet begun.
InitThreads ==
    /\ main_pc = "init"
    /\ worker_pc = "not_started"
    /\ data_lock = "free"
    /\ app_running = TRUE
    /\ latest_frame = 0
    /\ player_1_emotion = "unknown"
    /\ player_2_emotion = "unknown"
    /\ player_1_box = <<>>
    /\ player_2_box = <<>>
    /\ frame_to_analyze = 0
    /\ results = Analysed(<<>>)
    /\ p1_box_copy = <<>>
    /\ p2_box_copy = <<>>
    /\ camera = "off"
    /\ late_analyses = 0
    /\ late_publishes = 0
    /\ cycle = <<>>

Init ==
    /\ InitDispatch /\ InitSmoother /\ NoCall /\ InitCalibrator /\ InitPipeline
    /\ InitThreads /\ InitShake /\ InitAudio /\ InitFrames /\ InitMic

Next == FastLoop

Spec == Init /\ [][Next]_vars

\* The smoother alone, fed one pair of raw labels per analysed frame.
NextSmoother == SmootherUpdate

SpecSmoother == Init /\ [][NextSmoother]_vars

(***************************************************************************)
(* analyze_face_emotion alone, on score vectors either side of every       *)
(* threshold of its rules, without a baseline and with one of two.         *)
(***************************************************************************)
ScoreVectors ==
    {v \in {Vector(a, d, f, h, s, u) :
                a \in {0, 5, 6, 7, 8, 9, 10, 11, 16, 40},
                d \in {0, 6, 10, 11, 12, 13, 18, 19},
                f \in {0, 15, 16},
                h \in {0, 14, 15, 60},
                s \in {0, 10, 20},
                u \in {0, 20, 21}} : v.neutral >= 0}

\* A calm face averaged over 10 samples, and a frowning one over 3.
ClassifyBaselines ==
    { [num |-> [angry |-> 20, disgust |-> 10, fear |-> 10, happy |-> 100,
                sad |-> 50, surprise |-> 10, neutral |-> 800], den |-> 10],
      [num |-> [angry |-> 20, disgust |-> 16, fear |-> 4, happy |-> 10,
                sad |-> 40, surprise |-> 0, neutral |-> 210], den |-> 3] }

InitClassify ==
    /\ InitDispatch /\ InitSmoother /\ InitCalibrator /\ InitPipeline
    /\ InitThreads /\ InitShake /\ InitAudio /\ InitFrames /\ InitMic
    /\ \/ deepface_result = <<>>
       \/ \E v \in ScoreVectors : \E d \in ArgMax(v) :
              deepface_result = <<[emotion |-> v, dominant_emotion |-> d]>>
    /\ baseline \in {<<>>} \cup {<<b>> : b \in ClassifyBaselines}
    /\ face_emotion = "pending"

NextClassify == ClassifyFace

SpecClassify == InitClassify /\ [][NextClassify]_vars

(***************************************************************************)
(* The BaselineCalibrator object under any sequence of calls of its        *)
(* methods.                                                                *)
(***************************************************************************)
NextCalibrator == CalibratorCall

SpecCalibrator == Init /\ [][NextCalibrator]_vars

(***************************************************************************)
(* analyze_player_emotions called frame after frame.                       *)
(***************************************************************************)
NextVision == AnalysisCall

SpecVision == Init /\ [][NextVision]_vars

(***************************************************************************)
(* analyze_player_emotions on frames with up to three faces.               *)
(***************************************************************************)
NextAssign == AssignCall

SpecAssign == Init /\ [][NextAssign]_vars

(***************************************************************************)
(* The smoother's histories against the raw labels it was given.           *)
(***************************************************************************)
NextHistory == ObservedUpdate

SpecHistory == Init /\ [][NextHistory]_vars

(***************************************************************************)
(* main_app and analysis_worker interleaved.  In SpecThreadsFair every step *)
(* of main_app, and every step of analysis_worker other than the return of *)
(* DeepFace.analyze, is taken if it stays possible; DeepFace.analyze may    *)
(* never return.                                                           *)
(***************************************************************************)
NextThreads == MainStep \/ WorkerOwnStep \/ AnalysisReturns

SpecThreads == Init /\ [][NextThreads]_vars

SpecThreadsFair ==
    /\ Init
    /\ [][NextThreads]_vars
    /\ WF_vars(MainStep)
    /\ WF_vars(WorkerOwnStep)

(***************************************************************************)
(* Properties of the dispatcher (checked under Spec).                      *)
(***************************************************************************)
HasFired(k) == lastAlert[k] # 0

\* C1: an alert of a kind that has fired at t0 never fires again at a loop
\* time before t0 + ROAST_COOLDOWN, whatever the snapshots and signals are.
C1_NoRepeatWithinCooldown ==
    [][\A k \in Kinds :
          (k \in fired' /\ HasFired(k))
              => current_time' >= lastAlert[k] + ROAST_COOLDOWN]_vars

\* C1 witness: the left player was roasted, stayed angry through the whole
\* cooldown without a second roast, and was roasted again after it.
C1_Witness ==
    /\ streak["left"] = 2
    /\ "left" \in fired
    /\ lastAlert["hardware"] = 0

\* C2 as stated: a kind whose trigger has held on every read since its alert
\* at t0 has fired again by the end of any iteration past t0 + ROAST_COOLDOWN,
\* whatever the other two kinds do.
C2_Original ==
    \A k \in Kinds :
        streak[k] >= 1 => current_time - lastAlert[k] <= ROAST_COOLDOWN

\* C2 amended: the hardware alert is never overdue while a hardware signal is
\* read on every iteration; a player who is angry with the own cooldown
\* elapsed gets an alert in that very iteration unless a higher-priority
\* alert fires instead; and an iteration fires one alert at most.
C2_NotPostponed ==
    /\ [](streak["hardware"] >= 1
            => current_time - lastAlert["hardware"] <= ROAST_COOLDOWN)
    /\ [][/\ (p1_emo_copy' = "angry"
                /\ current_time' - player_1_last_roast > ROAST_COOLDOWN)
              => ("left" \in fired' \/ "hardware" \in fired')
          /\ (p2_emo_copy' = "angry"
                /\ current_time' - player_2_last_roast > ROAST_COOLDOWN)
              => fired' # {}
          /\ Cardinality(fired') <= 1]_vars

\* C2 witness: a second hardware alert after a first one, a hardware signal
\* having been read on every iteration in between.
C2_Witness ==
    /\ streak["hardware"] = 2
    /\ "hardware" \in fired

\* C3: a hardware alert sets the three timestamps to its loop time, and no
\* player alert fires within ROAST_COOLDOWN of the latest hardware alert.
C3_HardwareResetsPlayers ==
    /\ "hardware" \in fired
          => /\ player_1_last_roast = current_time
             /\ player_2_last_roast = current_time
             /\ hardware_last_roast = current_time
    /\ (HasFired("hardware")
          /\ current_time - lastAlert["hardware"] <= ROAST_COOLDOWN)
          => ("left" \notin fired /\ "right" \notin fired)

\* C3 witness: both players are angry at an iteration later than a hardware
\* alert and within its cooldown, and nothing fires.
C3_Witness ==
    /\ HasFired("hardware")
    /\ current_time > lastAlert["hardware"]
    /\ current_time - lastAlert["hardware"] <= ROAST_COOLDOWN
    /\ p1_emo_copy = "angry"
    /\ p2_emo_copy = "angry"
    /\ ~HasFired("left") /\ ~HasFired("right")
    /\ fired = {}

\* C4: a player alert sets hardware_last_roast and the player's own timestamp
\* to its loop time, and no hardware alert fires within ROAST_COOLDOWN of the
\* latest alert of either player.
C4_PlayerResetsHardware ==
    /\ "left" \in fired
          => (player_1_last_roast = current_time /\ hardware_last_roast = current_time)
    /\ "right" \in fired
          => (player_2_last_roast = current_time /\ hardware_last_roast = current_time)
    /\ \A k \in {"left", "right"} :
          (HasFired(k) /\ current_time - lastAlert[k] <= ROAST_COOLDOWN)
              => "hardware" \notin fired

\* C4 witness: a shake and a yell are read at an iteration later than a
\* right-player alert and within its cooldown, no hardware alert having fired
\* before, and nothing fires.
C4_Witness ==
    /\ HasFired("right")
    /\ current_time > lastAlert["right"]
    /\ current_time - lastAlert["right"] <= ROAST_COOLDOWN
    /\ ~HasFired("hardware")
    /\ is_shaking /\ is_yelling
    /\ fired = {}

\* C5: an iteration fires at most one alert, the first eligible one in the
\* order hardware, left, right, and writes the timestamps of that alert only.
C5_PriorityOrder ==
    [][LET hw == (is_shaking' \/ is_yelling')
                    /\ current_time' - hardware_last_roast > ROAST_COOLDOWN
           l  == p1_emo_copy' = "angry"
                    /\ current_time' - player_1_last_roast > ROAST_COOLDOWN
           r  == p2_emo_copy' = "angry"
                    /\ current_time' - player_2_last_roast > ROAST_COOLDOWN
       IN  /\ Cardinality(fired') <= 1
           /\ "hardware" \in fired' <=> hw
           /\ "left" \in fired' <=> (~hw /\ l)
           /\ "right" \in fired' <=> (~hw /\ ~l /\ r)
           /\ fired' = {"hardware"}
                 => /\ player_1_last_roast' = current_time'
                    /\ player_2_last_roast' = current_time'
                    /\ hardware_last_roast' = current_time'
           /\ fired' = {"left"}
                 => /\ player_1_last_roast' = current_time'
                    /\ player_2_last_roast' = player_2_last_roast
                    /\ hardware_last_roast' = current_time'
           /\ fired' = {"right"}
                 => /\ player_1_last_roast' = player_1_last_roast
                    /\ player_2_last_roast' = current_time'
                    /\ hardware_last_roast' = current_time'
           /\ fired' = {}
                 => UNCHANGED <<player_1_last_roast, player_2_last_roast,
                                hardware_last_roast>>]_vars

\* C5 witness: the hardware alert fired in an iteration in which both players
\* were angry and had had no alert yet, so all three were eligible.
C5_Witness ==
    /\ fired = {"hardware"}
    /\ p1_emo_copy = "angry" /\ p2_emo_copy = "angry"
    /\ ~HasFired("left") /\ ~HasFired("right")
    /\ lastAlert["hardware"] = StartTime

\* C6 as stated: every alert is more than ROAST_COOLDOWN after the latest
\* earlier alert of any kind.
C6_Original ==
    [][\A k \in fired' : \A j \in Kinds :
          HasFired(j) => current_time' - lastAlert[j] > ROAST_COOLDOWN]_vars

\* C6 amended: every alert is more than ROAST_COOLDOWN after the latest
\* earlier alert of every kind, except that a left and a right alert may
\* follow one another at any distance.
C6_OneAlertPerInterval ==
    [][\A k \in fired' : \A j \in Kinds :
          (HasFired(j) /\ {k, j} # {"left", "right"})
              => current_time' - lastAlert[j] > ROAST_COOLDOWN]_vars

\* C6 witness: a right alert fires within the cooldown of a left alert.
C6_Witness ==
    /\ "right" \in fired
    /\ HasFired("left")
    /\ current_time - lastAlert["left"] <= ROAST_COOLDOWN

\* C7: a left alert leaves player_2_last_roast as it was, a right alert
\* leaves player_1_last_roast as it was, and an iteration that writes both
\* player timestamps is one that fires the hardware alert.
C7_PlayerCooldownsIndependent ==
    [][/\ fired' = {"left"} => player_2_last_roast' = player_2_last_roast
       /\ fired' = {"right"} => player_1_last_roast' = player_1_last_roast
       /\ (player_1_last_roast' # player_1_last_roast
              /\ player_2_last_roast' # player_2_last_roast)
             => "hardware" \in fired']_vars

\* C7 witness: a left alert at a loop time later than the right player's
\* timestamp, which still holds the time of an earlier right alert.
C7_Witness ==
    /\ fired = {"left"}
    /\ HasFired("right")
    /\ player_2_last_roast = lastAlert["right"]
    /\ player_2_last_roast < current_time
    /\ ~HasFired("hardware")

(***************************************************************************)
(* Properties of the smoother (checked under SpecSmoother).                *)
(***************************************************************************)
\* The most frequent label of a history, the first seen among equals.
FirstSeenMode(history) ==
    CHOOSE e \in LabelsOf(history) :
        /\ \A f \in LabelsOf(history) : Count(history, f) <= Count(history, e)
        /\ \A f \in LabelsOf(history) :
              Count(history, f) = Count(history, e)
                  => FirstIndex(history, e) <= FirstIndex(history, f)

\* C8 as stated: while a history is shorter than confidence_threshold the
\* stable label is the most frequent label of the history, the first seen
\* among several that tie.
C8_FirstSeenMode ==
    /\ Len(left_history) \in 1..(confidence_threshold - 1)
          => left_current = FirstSeenMode(left_history)
    /\ Len(right_history) \in 1..(confidence_threshold - 1)
          => right_current = FirstSeenMode(right_history)

\* C9: a label that occurs at least confidence_threshold times in a
\* subject's window is that subject's stable label, in every state.
C9_MajorityIsStable ==
    \A e \in RawLabels :
        /\ Count(left_history, e) >= confidence_threshold => left_current = e
        /\ Count(right_history, e) >= confidence_threshold => right_current = e

\* C9 witness: a full window holding angry exactly confidence_threshold
\* times with other labels in between and at the end; angry is stable.
C9_Witness ==
    /\ Len(left_history) = window_size
    /\ Count(left_history, "angry") = confidence_threshold
    /\ left_history[2] # "angry"
    /\ left_history[window_size] # "angry"
    /\ left_current = "angry"

\* C10: an observation after which the history holds at least
\* confidence_threshold labels, none of them confidence_threshold times,
\* leaves the subject's stable label as it was.
C10_Hysteresis ==
    [][/\ (Len(left_history') >= confidence_threshold
             /\ \A e \in RawLabels : Count(left_history', e) < confidence_threshold)
          => left_current' = left_current
       /\ (Len(right_history') >= confidence_threshold
             /\ \A e \in RawLabels : Count(right_history', e) < confidence_threshold)
          => right_current' = right_current]_vars

\* C10 witness: a full window without a majority whose stable label is
\* neither the newest label nor the most frequent one.
C10_Witness ==
    /\ Len(left_history) = window_size
    /\ \A e \in RawLabels : Count(left_history, e) < confidence_threshold
    /\ left_current = "angry"
    /\ left_history[window_size] # "angry"
    /\ MostCommon(left_history) # "angry"

(***************************************************************************)
(* Claims about analyze_face_emotion, under SpecClassify.                  *)
(***************************************************************************)
Classified == face_emotion # "pending" /\ deepface_result # <<>>

Scores == deepface_result[1].emotion

\* den times the change of a channel from the baseline given to the call
ChangeFrom(emotion) == baseline[1].den * Scores[emotion] - baseline[1].num[emotion]

FourDeltaRules ==
    LET n == baseline[1].den
    IN  \/ ChangeFrom("angry") > 8 * n
        \/ /\ ChangeFrom("angry") + ChangeFrom("disgust") + ChangeFrom("sad") > 12 * n
           /\ (ChangeFrom("angry") > 3 * n \/ ChangeFrom("disgust") > 6 * n)
        \/ ChangeFrom("disgust") > 10 * n
        \/ (ChangeFrom("angry") > 5 * n /\ ChangeFrom("happy") < (0 - 5) * n)

SecondHighest ==
    CHOOSE v \in {Scores[e] : e \in Emotions} :
        \E top \in Emotions :
            /\ \A e \in Emotions : Scores[e] <= Scores[top]
            /\ \E e \in Emotions \ {top} :
                  /\ Scores[e] = v
                  /\ \A f \in Emotions \ {top} : Scores[f] <= v

SevenAbsoluteRules ==
    LET dominant == Scores[deepface_result[1].dominant_emotion]
    IN  \/ (Scores.angry >= 8 /\ 25 * Scores.angry >= 4 * dominant)
        \/ /\ Scores.angry + Scores.disgust + Scores.sad > 25
           /\ (Scores.angry > 5 \/ Scores.disgust > 12)
        \/ (Scores.neutral > 30 /\ (Scores.angry > 8 \/ Scores.disgust > 10))
        \/ Scores.disgust > 18
        \/ (Scores.fear > 15 /\ Scores.angry > 8)
        \/ (Scores.surprise > 20 /\ Scores.angry > 6)
        \/ /\ Scores.angry > 10 /\ Scores.happy < 15
           /\ (Scores.angry >= SecondHighest \/ 10 * Scores.angry >= 7 * SecondHighest)

\* C18: with a baseline, the label is 'angry' when one of the four delta
\* rules matches and the raw dominant label when none of them does.
C18_DeltaRulesDecide ==
    (Classified /\ baseline # <<>>) =>
        face_emotion = (IF FourDeltaRules THEN "angry"
                        ELSE deepface_result[1].dominant_emotion)

\* C19: without a baseline, the label is 'angry' exactly when one of the
\* seven absolute-score rules holds, and the lower-cased dominant label
\* otherwise.
C19_AbsoluteRulesDecide ==
    (Classified /\ baseline = <<>>) =>
        /\ (face_emotion = "angry") <=> SevenAbsoluteRules
        /\ ~SevenAbsoluteRules =>
               face_emotion = Lower(deepface_result[1].dominant_emotion)

\* A happy-dominant face without baseline made 'angry' by a rule other than
\* the first, and the state reached with the call made.
C19_Witness ==
    /\ Classified /\ baseline = <<>>
    /\ deepface_result[1].dominant_emotion = "happy"
    /\ ~(Scores.angry >= 8)
    /\ face_emotion = "angry"

(***************************************************************************)
(* Claims about BaselineCalibrator, under SpecCalibrator.                  *)
(***************************************************************************)
Uncalibrated == ~calibrated /\ left_baseline = <<>> /\ right_baseline = <<>>

\* C13: calculate_baseline called with fewer than samples_needed samples
\* returns False and the calibrator is left uncalibrated, both baselines
\* None; called with exactly samples_needed samples it returns True and
\* calibrated is True.
C13_CalculateNeedsSamples ==
    api_return.call = "calculate_baseline" =>
        /\ Len(calibration_samples) < 10 => (~api_return.ok /\ Uncalibrated)
        /\ Len(calibration_samples) = 10 => (api_return.ok /\ calibrated)

\* calculate_baseline has just returned True on exactly ten samples.
C13_Witness ==
    /\ api_return.call = "calculate_baseline"
    /\ api_return.ok
    /\ Len(calibration_samples) = 10
    /\ calibrated

\* C14: once calibrated, no call other than reset changes left_baseline,
\* right_baseline or the calibrated flag.
C14_LockedUntilReset ==
    [][(calibrated /\ api_return'.call # "reset") =>
           /\ calibrated'
           /\ left_baseline' = left_baseline
           /\ right_baseline' = right_baseline]_vars

\* The samples added since the last reset, as the buffer holds them.
FreshSamples ==
    SubSeq(calibration_samples,
           Len(calibration_samples) - fresh_samples + 1,
           Len(calibration_samples))

\* C15: reset leaves the calibrator uncalibrated with both baselines None
\* and an empty buffer; after a reset the calibrator is calibrated only once
\* samples_needed samples were added since, and its baselines are the means
\* of samples added since the reset.
C15_ResetRelearns ==
    /\ api_return.call = "reset" => (Uncalibrated /\ calibration_samples = <<>>)
    /\ (resets > 0 /\ calibrated) =>
           /\ fresh_samples >= samples_needed
           /\ \E k \in samples_needed..fresh_samples :
                  /\ left_baseline = LeftBaselineOf(SubSeq(FreshSamples, 1, k))
                  /\ right_baseline = RightBaselineOf(SubSeq(FreshSamples, 1, k))

\* Calibrated again after a reset.
C15_Witness ==
    /\ resets > 0
    /\ calibrated
    /\ api_return.call = "calculate_baseline"

(***************************************************************************)
(* Claims about analyze_player_emotions, under SpecVision, SpecAssign and  *)
(* SpecHistory.                                                            *)
(***************************************************************************)
StableLabels == [left |-> left_current, right |-> right_current]

\* C11 as stated: after every call, whatever the frame, the labels returned
\* are the stable labels the smoother holds.
C11_Original == calls > 0 => returned_emotions = StableLabels

\* C11: after a call on a frame with at least one face, the labels returned
\* are the stable labels the smoother holds; after a call on a frame without
\* a face they are 'unknown' for both subjects.
C11_ReturnsStableLabels ==
    calls > 0 =>
        IF Len(faces) > 0 THEN returned_emotions = StableLabels
                          ELSE returned_emotions = Unknowns

\* A frame with one face, whose raw right label is 'unknown', answered with
\* a right subject still 'angry' and a left subject 'neutral'.
C11_Witness ==
    /\ calls > 0
    /\ Len(faces) = 1
    /\ returned_emotions = [left |-> "neutral", right |-> "angry"]

Min(a, b) == IF a < b THEN a ELSE b

\* The history one subject must hold after the raw labels of observed: the
\* last window_size of them, oldest first.
HoldsLastObserved(history, slot) ==
    /\ Len(history) = Min(Len(observed), window_size)
    /\ \A i \in 1..Len(history) :
           history[i] = observed[Len(observed) - Len(history) + i][slot]

\* C12: a history never holds more than window_size labels; after k
\* observations it holds the last min(k, window_size) raw labels in arrival
\* order.
C12_HistoryIsLastWindow ==
    /\ Len(left_history) <= 7 /\ Len(right_history) <= 7
    /\ HoldsLastObserved(left_history, 1)
    /\ HoldsLastObserved(right_history, 2)

\* More raw labels were given than the window holds, the first of them gone.
C12_Witness ==
    /\ Len(observed) > window_size
    /\ Len(left_history) = window_size
    /\ observed[1][1] = "angry"
    /\ \A i \in 1..Len(left_history) : left_history[i] = "neutral"

\* The sum of one channel of one side over the first n calibration samples,
\* a sample without scores for the side counting 0.
RECURSIVE ChannelSum(_, _, _)
ChannelSum(side, emotion, n) ==
    IF n = 0 THEN 0
    ELSE ChannelSum(side, emotion, n - 1)
         + (IF calibration_samples[n][side] = <<>> THEN 0
            ELSE calibration_samples[n][side][1][emotion])

SamplesWith(side) ==
    {i \in 1..Len(calibration_samples) : calibration_samples[i][side] # <<>>}

\* The baseline is the mean of the side's vectors in the samples, over n.
IsMeanOver(base, side, n) ==
    /\ base # <<>>
    /\ base[1].den = n
    /\ \A e \in Emotions :
           base[1].num[e] = ChannelSum(side, e, Len(calibration_samples))

\* C16 as stated: once locked, the left and the right baseline are each the
\* mean of exactly samples_needed vectors of that subject.
C16_Original ==
    calibrated =>
        /\ Cardinality(SamplesWith("left")) = samples_needed
        /\ IsMeanOver(left_baseline, "left", samples_needed)
        /\ Cardinality(SamplesWith("right")) = samples_needed
        /\ IsMeanOver(right_baseline, "right", samples_needed)

\* C16: once locked, the left baseline is the mean of exactly samples_needed
\* left vectors; the right baseline is the mean of the right vectors of those
\* samples that have one, divided by their number, and None when no sample
\* has one.
C16_MeanOfSamples ==
    calibrated =>
        /\ Len(calibration_samples) = samples_needed
        /\ Cardinality(SamplesWith("left")) = samples_needed
        /\ IsMeanOver(left_baseline, "left", samples_needed)
        /\ IF SamplesWith("right") = {} THEN right_baseline = <<>>
           ELSE IsMeanOver(right_baseline, "right",
                           Cardinality(SamplesWith("right")))

\* Locked on ten samples of which some, not all, have a right vector.
C16_Witness ==
    /\ calibrated
    /\ Cardinality(SamplesWith("right")) \in 1..(samples_needed - 1)
    /\ right_baseline # <<>>

\* C17 as stated: in a call made once calibrated, neither subject is
\* classified by the absolute rules alone.
C17_Original ==
    [][(calibrated /\ calls' = calls + 1) =>
           /\ classified_with'.left # "absolute"
           /\ classified_with'.right # "absolute"]_vars

\* C17: in a call made once calibrated, the left subject is classified
\* against its baseline; the right subject is classified against its
\* baseline when a calibration sample had a right vector, and by the
\* absolute rules alone when none had.
C17_DeltaModeWhenBaseline ==
    [][(calibrated /\ calls' = calls + 1 /\ Len(faces') > 0) =>
           /\ classified_with'.left = "delta"
           /\ Len(faces') >= 2 =>
                  classified_with'.right =
                      (IF SamplesWith("right") = {} THEN "absolute" ELSE "delta")]_vars

\* A two-face frame after calibration locked on one-face frames only: the
\* left subject classified against its baseline, the right one without.
C17_Witness ==
    /\ calibrated
    /\ SamplesWith("right") = {}
    /\ Len(faces) = 2
    /\ classified_with = [left |-> "delta", right |-> "absolute"]

\* The faces of a frame at the smallest and at the second smallest x.
FacesOf(fs) == {fs[i] : i \in 1..Len(fs)}

Leftmost(fs) == CHOOSE f \in FacesOf(fs) : \A g \in FacesOf(fs) : f.x <= g.x

Second(fs) == Leftmost(SelectSeq(fs, LAMBDA f : f # Leftmost(fs)))

LastOf(seq) == seq[Len(seq)]

otherThanShake == <<dispatchVars, smootherVars, classifyVars, calibratorVars,
                    pipelineVars, observed, threadVars, audioVars, frameVars,
                    micVars>>

NextShake ==
    \/ SetupGyro /\ UNCHANGED otherThanShake
    \/ ReaderStep /\ UNCHANGED otherThanShake
    \/ CheckerStep /\ UNCHANGED otherThanShake

SpecShake == Init /\ [][NextShake]_vars

(***************************************************************************)
(* The fast loop with a speak call that can fail in every way it can.      *)
(***************************************************************************)
NextAudio == FastLoopSpeaking

SpecAudio == Init /\ [][NextAudio]_vars

(***************************************************************************)
(* analyze_player_emotions called frame after frame, with                  *)
(* reset_calibration called in between.                                    *)
(***************************************************************************)
NextRecalibrate == RecalibrationCall \/ ResetCalibration

SpecRecalibrate == Init /\ [][NextRecalibrate]_vars

(***************************************************************************)
(* The fast loop reading the shake flag, which the serial reader sets, and *)
(* the yell flag, and dispatching on what it read.                         *)
(***************************************************************************)
otherThanSignals == <<smootherVars, classifyVars, calibratorVars, pipelineVars,
                      observed, threadVars, audioVars, frameVars>>

NextSignals ==
    \/ ReaderRuns /\ UNCHANGED otherThanSignals
    \/ MicHearsYell /\ UNCHANGED otherThanSignals
    \/ LoopChecksShake /\ UNCHANGED otherThanSignals
    \/ LoopReadsSignals /\ UNCHANGED otherThanSignals

SpecSignals == Init /\ [][NextSignals]_vars

(***************************************************************************)
(* The frames of main_app and analysis_worker as arrays.                   *)
(***************************************************************************)
NextFrames ==
    \/ FramesStart
    \/ FramesCapture
    \/ FramesMainLock
    \/ FramesStore
    \/ FramesDraw
    \/ FramesWorkerLock
    \/ FramesTake
    \/ FramesAnalyze

SpecFrames == Init /\ [][NextFrames]_vars

(***************************************************************************)
(* Claims about the two threads of main.py, under SpecThreads and          *)
(* SpecThreadsFair.                                                        *)
(***************************************************************************)
Snapshot ==
    [p1_emotion |-> p1_emo_copy, p1_box |-> p1_box_copy,
     p2_emotion |-> p2_emo_copy, p2_box |-> p2_box_copy]

\* The values one publish of the worker can write, and the initial ones.
OnePublish ==
    {[p1_emotion |-> "unknown", p1_box |-> <<>>,
      p2_emotion |-> "unknown", p2_box |-> <<>>]}
    \cup {WorkerLocals(outcome) : outcome \in AnalysisOutcomes \ {Raised}}

SnapshotTaken == main_pc \in {"triggers", "dispatch", "render"}

\* C22: a snapshot of the four shared fields, once taken, is what one single
\* publish wrote, or the initial values.
C22_SnapshotOfOnePublish == SnapshotTaken => Snapshot \in OnePublish

\* A snapshot of a publish that found a face on each side, taken while the
\* worker is writing the next publish.
C22_Witness ==
    /\ SnapshotTaken
    /\ Snapshot = [p1_emotion |-> "angry", p1_box |-> <<200>>,
                   p2_emotion |-> "happy", p2_box |-> <<800>>]
    /\ worker_pc \in {"publish_2", "publish_3", "publish_4",
                      "except_2", "except_3", "except_4"}

\* C23: whoever holds data_lock is at a copy or an assignment of the shared
\* fields; nobody holds it inside DeepFace.analyze, a hardware read, the
\* roasting logic, the capture or the rendering.
C23_LockOnlyAroundCopies ==
    /\ data_lock = "worker" =>
           worker_pc \in {"copy", "publish_1", "publish_2", "publish_3", "publish_4",
                          "except_1", "except_2", "except_3", "except_4"}
    /\ data_lock = "main" => main_pc \in {"write_frame", "snap_1", "snap_2"}
    /\ (data_lock = "free") =
           (/\ worker_pc \notin {"copy", "publish_1", "publish_2", "publish_3",
                                 "publish_4", "except_1", "except_2", "except_3",
                                 "except_4"}
            /\ main_pc \notin {"write_frame", "snap_1", "snap_2"})

\* main_app holds the lock while the worker is inside DeepFace.analyze.
C23_Witness ==
    /\ data_lock = "main"
    /\ main_pc = "snap_2"
    /\ worker_pc = "analyze"

\* C24: while the worker is inside DeepFace.analyze the lock is free for
\* main_app whenever it asks for it and each request is granted; if the
\* worker stays there for ever, main_app goes on completing iterations
\* until it is told to quit.
C24_FastLoopNeverWaits ==
    /\ [](worker_pc = "analyze" /\ main_pc \in {"lock_frame", "lock_snap"}
              => data_lock = "free")
    /\ (worker_pc = "analyze" /\ main_pc = "lock_frame")
           ~> (main_pc = "write_frame" \/ worker_pc # "analyze")
    /\ (worker_pc = "analyze" /\ main_pc = "lock_snap")
           ~> (main_pc = "snap_1" \/ worker_pc # "analyze")
    /\ <>[](worker_pc = "analyze")
           => ([]<>(main_pc = "render") \/ <>(main_pc \in CleanupPcs))

\* main_app has dispatched an alert on a snapshot of an earlier publish
\* while the worker is inside the next DeepFace.analyze.
C24_Witness ==
    /\ worker_pc = "analyze"
    /\ main_pc = "render"
    /\ fired = {"left"}

SharedState ==
    [p1_emotion |-> player_1_emotion, p1_box |-> player_1_box,
     p2_emotion |-> player_2_emotion, p2_box |-> player_2_box]

\* C25: once the worker has left the critical section that follows a failed
\* DeepFace.analyze, both emotions are 'unknown' and both boxes None and the
\* worker is sleeping before its next cycle; the worker has stopped only if
\* app_running was cleared.
C25_FailurePublishesUnknown ==
    /\ (results.raised /\ worker_pc \notin {"lock_except", "except_1", "except_2",
                                            "except_3", "except_4", "analyze"}) =>
           /\ SharedState = [p1_emotion |-> "unknown", p1_box |-> <<>>,
                             p2_emotion |-> "unknown", p2_box |-> <<>>]
           /\ worker_pc \in {"sleep", "loop", "lock_copy", "copy", "check", "stopped"}
    /\ worker_pc = "stopped" => ~app_running
    /\ (worker_pc \in {"except_2", "except_3", "except_4"}) => data_lock = "worker"

\* The worker inside a new DeepFace.analyze after one that failed, with
\* app_running still set.
C25_Witness ==
    /\ results.raised
    /\ worker_pc = "analyze"
    /\ app_running
    /\ SharedState = [p1_emotion |-> "unknown", p1_box |-> <<>>,
                      p2_emotion |-> "unknown", p2_box |-> <<>>]

\* C26: app_running is cleared before the join, and main_app is past the
\* join, at the camera stop or done, only when the worker has left its loop.
C26_JoinBeforeShutdown ==
    /\ main_pc \in {"lights", "join", "stop_camera", "done"} => ~app_running
    /\ main_pc \in {"stop_camera", "done"} => worker_pc = "stopped"

\* Shutdown complete after a run in which the worker published.
C26_Witness ==
    /\ main_pc = "done"
    /\ worker_pc = "stopped"
    /\ player_1_emotion = "angry"

\* C27: once app_running is cleared the worker starts at most one analysis
\* and begins at most one publish, those of the cycle it is in; and if
\* DeepFace.analyze always returns, the worker stops and main_app reaches
\* the end of its shutdown.
C27_WorkerStopsAfterFlag ==
    /\ [](late_analyses <= 1 /\ late_publishes <= 1)
    /\ []<>(worker_pc # "analyze") =>
           (~app_running ~> (worker_pc = "stopped" /\ main_pc = "done"))

\* Shutdown complete, the worker having published once after app_running
\* was cleared.
C27_Witness ==
    /\ main_pc = "done"
    /\ worker_pc = "stopped"
    /\ late_publishes = 1

\* C29: when the camera could not be initialised, main_app has returned
\* with the analysis thread not started, no frame published, no snapshot
\* taken and no alert dispatched.
C29_NoLoopWithoutCamera ==
    camera = "failed" =>
        /\ main_pc = "aborted"
        /\ worker_pc = "not_started"
        /\ latest_frame = 0
        /\ \A k \in Kinds : lastAlert[k] = 0
        /\ app_running

\* main_app returned from the except clause of the camera initialisation.
C29_Witness == camera = "failed" /\ main_pc = "aborted"

(***************************************************************************)
(* Claim about the shake flag of hardware.py, under SpecShake.             *)
(***************************************************************************)
\* C28: check_for_shake returns True only when a SHAKE was recorded since
\* its previous True return, holds _serial_lock from its test of the flag
\* to its return, never returns True more often than SHAKEs were recorded,
\* and a SHAKE recorded after one test of the flag keeps the flag set until
\* the next test, so that no read returns False with a SHAKE recorded since
\* the read before it.
C28_ShakeFlagReadResets ==
    /\ last_return.value \in {"True", "False", "pending", "none"}
    /\ last_return.value = "True" => last_return.since_true > 0
    /\ checker_pc \in {"test", "clear", "return_true", "return_false"}
           => serial_lock = "checker"
    /\ true_returns <= shakes_received
    /\ shakes_received <= lines_read
    /\ since_test > 0 => shake_detected
    /\ last_return.value = "False" => last_return.since_test = 0

\* Two reads have returned True for three recorded SHAKEs, and a fourth
\* read has returned False since.
C28_Witness ==
    /\ true_returns = 2
    /\ shakes_received = 3
    /\ last_return.value = "False"
    /\ checker_pc = "idle"

(***************************************************************************)
(* Claim about Speaker.speak and the fast loop, under SpecAudio.           *)
(***************************************************************************)
\* C30: whatever fails in speak, it returns normally with _cleanup run,
\* the fast loop goes on, and the timestamps of the alert that was being
\* spoken are written.
C30_AudioFailureSwallowed ==
    /\ fast_loop = "running"
    /\ fired # {} =>
           /\ spoken.returned = "normally"
           /\ spoken.cleanup
           /\ hardware_last_roast = current_time
           /\ "hardware" \in fired =>
                  player_1_last_roast = current_time /\ player_2_last_roast = current_time
           /\ "left" \in fired => player_1_last_roast = current_time
           /\ "right" \in fired => player_2_last_roast = current_time
    /\ fired = {} => spoken.returned = "not called"

\* A shake alert whose roast could not be generated: nothing was played,
\* and the three timestamps were written.
C30_Witness ==
    /\ fired = {"hardware"}
    /\ audio_failure = "tts"
    /\ ~spoken.played
    /\ spoken.cleanup
    /\ hardware_last_roast = current_time
    /\ player_1_last_roast = current_time
    /\ fast_loop = "running"

(***************************************************************************)
(* Claims about what analysis_worker publishes, under SpecThreads.         *)
(***************************************************************************)
\* The worker has left the critical section of a publish that followed a
\* DeepFace.analyze which returned.
Published ==
    /\ ~results.raised
    /\ worker_pc \in {"sleep", "loop", "lock_copy", "copy", "check", "stopped"}
    /\ frame_to_analyze # 0

\* C31: with exactly one face analysed, player 1 has its label and box and
\* player 2 is 'unknown', wherever the face is; with two faces, the one
\* with the smaller x is player 1 and the other is player 2.
C31_PositionalSlots ==
    Published =>
        /\ Len(results.faces) = 1 =>
               /\ player_1_emotion # "unknown"
               /\ player_1_box = <<results.faces[1].x>>
               /\ player_2_emotion = "unknown"
               /\ player_2_box = <<>>
        /\ Len(results.faces) = 2 =>
               LET a == results.faces[1]
                   b == results.faces[2]
                   first  == IF a.x <= b.x THEN a ELSE b
                   second == IF a.x <= b.x THEN b ELSE a
               IN  /\ player_1_box = <<first.x>>
                   /\ player_2_box = <<second.x>>

\* The cycles of the worker: a read that found the store empty and a
\* sleep; or a read, an analysis, one publish and a sleep.
WholeCycles ==
    { <<"read", "sleep">>, <<"read", "analyze", "publish", "sleep">> }

\* C32: whenever the worker is about to read latest_frame again, or has
\* stopped, what it did since its last read is one whole cycle: it slept
\* exactly once, and an analysis was followed by exactly one publish and
\* then the sleep.  Inside a cycle it has done a beginning of one.
C32_WorkerCycle ==
    /\ worker_pc \in {"loop", "lock_copy", "copy", "stopped"} =>
           cycle \in WholeCycles \cup {<<>>}
    /\ \E whole \in WholeCycles :
           Len(cycle) <= Len(whole) /\ cycle = SubSeq(whole, 1, Len(cycle))
    /\ worker_pc = "sleep" =>
           cycle \in {<<"read">>, <<"read", "analyze", "publish">>}

\* The worker about to read again after a cycle whose analysis failed.
C32_Witness ==
    /\ worker_pc = "copy"
    /\ results.raised
    /\ cycle = <<"read", "analyze", "publish", "sleep">>

\* C34: neither published label, nor a label the fast loop has read, is
\* ever 'fear'; once the publish that follows an analysis is complete, the
\* slot of a face whose dominant emotion is 'fear' holds 'angry'.
C34_FearPublishedAsAngry ==
    /\ player_1_emotion # "fear" /\ player_2_emotion # "fear"
    /\ p1_emo_copy # "fear" /\ p2_emo_copy # "fear"
    /\ Published =>
           \A i \in 1..Len(results.faces) :
               results.faces[i].dominant_emotion = "fear" =>
                   IF results.faces[i].x < CENTER_LINE
                   THEN player_1_emotion = "angry"
                   ELSE player_2_emotion = "angry"

\* The dispatcher has roasted player 2 for a face that DeepFace called
\* frightened.
C34_Witness ==
    /\ results = Analysed(<<Detected(900, "fear")>>)
    /\ player_2_emotion = "angry"
    /\ p2_emo_copy = "angry"
    /\ fired = {"right"}

\* C37: in every snapshot the fast loop has taken, for each player, the box
\* is None exactly when the emotion is 'unknown'.
C37_BoxNoneIffUnknown ==
    SnapshotTaken =>
        /\ (p1_box_copy = <<>>) = (p1_emo_copy = "unknown")
        /\ (p2_box_copy = <<>>) = (p2_emo_copy = "unknown")

\* A snapshot with a face on the left only, held by main_app while the
\* worker is in the middle of writing its next publish.
C37_Witness ==
    /\ SnapshotTaken
    /\ p1_emo_copy = "angry" /\ p1_box_copy = <<100>>
    /\ p2_emo_copy = "unknown" /\ p2_box_copy = <<>>
    /\ worker_pc \in {"publish_2", "publish_3", "except_2", "except_3"}

(***************************************************************************)
(* Claim about the frame arrays, under SpecFrames.                         *)
(***************************************************************************)
\* C33: the stored frame is an array of its own holding what the captured
\* frame held when it was stored, and the frame under analysis is an array
\* of its own holding what the stored frame held when the worker took it:
\* no capture, store or drawing since has changed either, and
\* DeepFace.analyze never read an overlay.
C33_FramesCopied ==
    /\ latest_frame # 0 =>
           /\ latest_frame # frame_bgr
           /\ <<arrays[latest_frame]>> = stored_image
           /\ ~arrays[latest_frame].overlay
    /\ worker_pc = "analyze" =>
           /\ frame_to_analyze \notin {0, latest_frame, frame_bgr}
           /\ <<arrays[frame_to_analyze]>> = analysed_image
    /\ seen # <<>> => ~seen[1].overlay

\* The worker is analysing the first image while a later image is stored
\* and main_app has drawn on its own frame.
C33_Witness ==
    /\ worker_pc = "analyze"
    /\ arrays[frame_to_analyze].image = 1
    /\ arrays[latest_frame].image = 2
    /\ arrays[frame_bgr].overlay

(***************************************************************************)
(* Further properties of the dispatcher (checked under Spec).              *)
(***************************************************************************)
\* The loop time of the latest alert of any kind, 0 if there was none.
LatestAlert ==
    CHOOSE t \in {lastAlert[k] : k \in Kinds} : \A k \in Kinds : lastAlert[k] <= t

\* C35: hardware_last_roast is never less than either player's timestamp
\* and is the time of the latest alert of any kind, and a hardware alert
\* fires only more than ROAST_COOLDOWN after the latest alert of every kind.
C35_HardwareStampIsLatest ==
    /\ [](/\ hardware_last_roast >= player_1_last_roast
          /\ hardware_last_roast >= player_2_last_roast
          /\ hardware_last_roast = LatestAlert)
    /\ [][ "hardware" \in fired' =>
              \A j \in Kinds :
                  HasFired(j) => current_time' - lastAlert[j] > ROAST_COOLDOWN ]_vars

\* A shake is read within the cooldown of a right alert that followed a
\* left alert, no hardware alert having fired yet, and nothing fires.
C35_Witness ==
    /\ HasFired("left") /\ HasFired("right") /\ ~HasFired("hardware")
    /\ player_1_last_roast < player_2_last_roast
    /\ hardware_last_roast = player_2_last_roast
    /\ is_shaking
    /\ current_time > hardware_last_roast
    /\ fired = {}

(***************************************************************************)
(* Claims about calibration and no-face frames in analyze_player_emotions. *)
(***************************************************************************)
\* C38: the calibration buffer never holds more than samples_needed
\* samples, calibrated is True exactly when it holds samples_needed, and
\* calibrated implies that left_baseline is not None.
C38_BufferAndCalibrated ==
    /\ Len(calibration_samples) <= samples_needed
    /\ calibrated = (Len(calibration_samples) = samples_needed)
    /\ calibrated => left_baseline # <<>>

\* Calibrated a second time, after a reset_calibration that followed a
\* first calibration.
C38_Witness ==
    /\ resets = 1
    /\ calls >= 20
    /\ calibrated
    /\ Len(calibration_samples) = 10
    /\ left_baseline # <<>>

\* C39: a call on a frame with no detected face leaves both histories, both
\* stable labels and the calibration buffer as they were.
C39_NoFaceTouchesNothing ==
    [][(calls' = calls + 1 /\ faces' = <<>>) =>
           /\ left_history' = left_history
           /\ right_history' = right_history
           /\ left_current' = left_current
           /\ right_current' = right_current
           /\ calibration_samples' = calibration_samples]_vars

\* A frame with nobody in it, after frames that filled the left history
\* with 'neutral' and put samples in the calibration buffer.
C39_Witness ==
    /\ faces = <<>>
    /\ calls >= 5
    /\ left_current = "neutral"
    /\ Len(left_history) >= 4
    /\ Len(calibration_samples) >= 4
    /\ ~calibrated

(***************************************************************************)
(* Claim about the fast loop reading the shake and yell flags, under       *)
(* SpecSignals.                                                            *)
(***************************************************************************)
\* C36: a shake or yell read by the fast loop is consumed by the read,
\* whether or not the hardware alert fires: once check_for_shake has
\* returned the shake flag is set only if a SHAKE was recorded since its
\* test, the yell flag is set only if a yell was heard since its read, and
\* an iteration fires the hardware alert only on a shake recorded, or a
\* yell heard, since the previous read of the same flag.
C36_UnusedSignalIsLost ==
    /\ (checker_pc = "idle" /\ shake_detected) => since_test > 0
    /\ yell_detected => yells_since_read > 0
    /\ (checker_pc = "idle" /\ "hardware" \in fired)
           => \/ is_shaking /\ last_return.value = "True"
                            /\ last_return.since_test > 0
              \/ is_yelling /\ last_yell.value /\ last_yell.since_read > 0

\* A first shake fired the hardware alert as the loop started; a second
\* shake and a yell were read while the cooldown ran; the cooldown has
\* elapsed, both flags are reset, and the latest iteration fired nothing.
C36_Witness ==
    /\ true_returns = 2
    /\ yells_heard = 1
    /\ yells_since_read = 0
    /\ ~shake_detected
    /\ ~yell_detected
    /\ checker_pc = "idle"
    /\ last_return.value = "False"
    /\ lastAlert["hardware"] = StartTime
    /\ current_time - lastAlert["hardware"] > ROAST_COOLDOWN
    /\ fired = {}

====
